---- MODULE Spec2Model ----
(***************************************************************************)
(* A model of the ThumbsApp server (src/unnamed/part_001): the document    *)
(* store, the WebSocket connection registry, the arena message handlers,   *)
(* settlement (completeArena) and the balance-changing HTTP handlers.      *)
(*                                                                         *)
(* Every handler is an async function.  It runs without interruption from  *)
(* one await to the next, and other handlers run while it waits.  A        *)
(* handler invocation is a slot of proc; each action below is one awaited  *)
(* persistence call together with the synchronous code that follows it up  *)
(* to the next await.  pc values are the source line of the awaited call.  *)
(***************************************************************************)
EXTENDS Integers, Sequences, FiniteSets, Bags, TLC

VARIABLES
  users,            \* User collection: userId -> document
  charts,           \* Chart collection: sequence, chartId = index
  arenas,           \* Arena collection: sequence, arenaId = index
  donations,        \* Donation collection: sequence, donationId = index
  ledger,           \* Transaction collection, in insertion order
  notifications,    \* Notification collection, in insertion order
  connectedClients, \* the Map userId -> socket of line 313 (NoSocket: absent)
  sockets,          \* per WebSocket: readyState, ws.userId, ws.arenas
  inbox,            \* per WebSocket: the envelopes ws.send has written to it
  pending,          \* bag of broadcastToArena calls awaiting their Arena.findById
  accepted,         \* log of the events the server accepted, in order
  proc,             \* handler invocations: position and local variables
  ops               \* number of handler invocations started so far

vars == <<users, charts, arenas, donations, ledger, notifications,
          connectedClients, sockets, inbox, pending, accepted, proc, ops>>

store == <<users, charts, arenas, donations, ledger, notifications>>

----------------------------------------------------------------------------
\* Bounds of the model.

NumUsers == 3
NumSockets == 2
\* Handler invocations in flight at a time.
MaxProcs == 2
\* Handler invocations started in a run: interleaved, and one after the other.
MaxOps == 2
MaxSeqOps == 3
\* Joins and complete requests started in the run of a chart's life.
MaxLifeOps == 3
\* join_arena and arena_chat messages started in the run of a spectator.
MaxWatchOps == 3

\* Constants of the program.

WelcomeBonus == 100
DefaultWinScore == 100
MinDonation == 10
EntryFee == 20

Users == 1..NumUsers
NoUser == 0
Sockets == 1..NumSockets
NoSocket == 0
Procs == 1..MaxProcs
NoId == 0

----------------------------------------------------------------------------
\* Documents.

NoRef == [kind |-> "none", id |-> 0]
ChartRef(c) == [kind |-> "chart", id |-> c]
DonationRef(d) == [kind |-> "donation", id |-> d]
CreationRef == [kind |-> "chart_creation", id |-> 0]

NewUser ==
  [balance |-> WelcomeBonus, totalEarned |-> 0, totalSupported |-> 0,
   chartsWon |-> 0, chartsCreated |-> 0, status |-> "offline"]

Transaction(u, t, amt, bal, ref) ==
  [user |-> u, type |-> t, amount |-> amt, balance |-> bal, reference |-> ref]

Notification(u, t, c) == [user |-> u, type |-> t, chart |-> c]

\* A socket after the connection event of line 315; ws.arenas is a Set,
\* iterated in insertion order.  probe records what became of the last ping
\* the heartbeat sent on the socket: none sent, sent, or answered.
NewSocket ==
  [readyState |-> "OPEN", userId |-> NoUser, arenas |-> <<>>,
   isAlive |-> TRUE, probe |-> "none"]

NoLoc == [none |-> 0]

\* A handler invocation: its kind k, the number op of the invocation, the
\* request (socket, authenticated caller, ids, value), the HTTP status and
\* error answered (0: none), and its local variables.  Two fields record the
\* state the request arrived in: fin, whether the arena it names was
\* finished, and pre, the balances a donation is about to change.
NewProc(k, pc, s, caller, a, c, u, v) ==
  [pc |-> pc, k |-> k, op |-> ops + 1, resp |-> 0, err |-> "", sock |-> s,
   caller |-> caller, arenaId |-> a, chartId |-> c, uid |-> u, val |-> v,
   idx |-> 0,
   fin |-> a \in DOMAIN arenas /\ arenas[a].status = "finished",
   pre |-> NoLoc,
   loc |-> NoLoc]

IdleProc ==
  [pc |-> "idle", k |-> "none", op |-> 0, resp |-> 0, err |-> "",
   sock |-> NoSocket,
   caller |-> NoUser, arenaId |-> NoId, chartId |-> NoId, uid |-> NoUser,
   val |-> 0, idx |-> 0, fin |-> FALSE, pre |-> NoLoc, loc |-> NoLoc]

\* The handler of slot p ends, having answered the HTTP status code (0 on a
\* WebSocket handler, which answers nothing).  Of the invocation its kind,
\* its answer and fin are kept; its local variables are gone.
EndProc(p, code) ==
  [proc EXCEPT ![p] = [IdleProc EXCEPT !.pc = "done", !.k = proc[p].k,
                                      !.resp = code, !.fin = proc[p].fin]]

\* A handler of kind k that has answered an error.
Rejected(k, code, error) ==
  [IdleProc EXCEPT !.pc = "done", !.k = k, !.resp = code, !.err = error]

\* The handler of slot p answers an error: res.status(code).json({ error }).
Reject(p, code, error) ==
  [proc EXCEPT ![p] = Rejected(proc[p].k, code, error)]

\* An outbound envelope.  An arena_chat or score_update envelope carries in
\* op the invocation that produced it, which tells two such events apart
\* (as their timestamp and text do); the others carry 0.
Env(type, a, u, body, op) ==
  [type |-> type, arenaId |-> a, userId |-> u, body |-> body, op |-> op]

\* An entry of the log of what the server has accepted, in order: an
\* arena_chat or score_update event persisted for an arena by invocation op,
\* or an auth message of user u on socket s.
Accepted(type, a, op, s, u) ==
  [type |-> type, arenaId |-> a, op |-> op, sock |-> s, user |-> u]

Idle(p) == proc[p].pc \in {"idle", "done"}

\* A new invocation takes the first free slot.
Free(p) == Idle(p) /\ \A q \in Procs : q < p => ~Idle(q)

AllIdle == \A p \in Procs : Idle(p)

\* A save that applies the change made in memory to the stored number.
SaveUser_Delta(us, u, read, doc) ==
  [us EXCEPT ![u] =
     [f \in DOMAIN read |->
        IF f = "status" THEN @[f] ELSE @[f] + doc[f] - read[f]]]

\* document.save() of a user: the paths whose value in memory differs from
\* the value read are written; the others are left as the store has them.
SaveUser(us, u, read, doc) ==
  [us EXCEPT ![u] =
     [f \in DOMAIN read |-> IF doc[f] # read[f] THEN doc[f] ELSE @[f]]]

\* chart.save(): changed scalar paths are written, and the elements pushed
\* onto participants and donations are appended by $push.
SaveChart(cs, c, read, doc) ==
  [cs EXCEPT ![c] =
     [f \in DOMAIN read |->
        IF f \in {"participants", "donations"}
        THEN @[f] \o SubSeq(doc[f], Len(read[f]) + 1, Len(doc[f]))
        ELSE IF doc[f] # read[f] THEN doc[f] ELSE @[f]]]

RECURSIVE SumAmounts(_)
SumAmounts(s) == IF s = <<>> THEN 0 ELSE Head(s).amount + SumAmounts(Tail(s))

SelectTx(u) == SelectSeq(ledger, LAMBDA t : t.user = u)

LedgerSum(u) == SumAmounts(SelectTx(u))

\* ws.send: the envelope is written when the socket is open.
Send(ib, s, msg) ==
  IF s # NoSocket /\ sockets[s].readyState = "OPEN"
  THEN [ib EXCEPT ![s] = Append(@, msg)]
  ELSE ib

\* connectedClients.get(userId), then the readyState test, then client.ws.send.
SendToUser(ib, u, msg) ==
  IF u \in Users THEN Send(ib, connectedClients[u], msg) ELSE ib


RECURSIVE SendAll(_, _, _, _)
SendAll(ib, us, msg, exclude) ==
  IF us = <<>> THEN ib
  ELSE SendAll(IF Head(us) # exclude THEN SendToUser(ib, Head(us), msg) ELSE ib,
               Tail(us), msg, exclude)

UsersOf(entries) == [i \in 1..Len(entries) |-> entries[i].user]

\* broadcastToArena up to its await: the call is queued behind its
\* Arena.findById; the caller does not wait for it.
Broadcast(pd, a, msg, exclude) ==
  pd (+) SetToBag({[arenaId |-> a, msg |-> msg, exclude |-> exclude]})

\* broadcastToArena after its await: the arena as it is now is read, and the
\* envelope is sent to the spectators and then to the players.
broadcastToArena(b) ==
  /\ BagIn(b, pending)
  /\ inbox' = IF b.arenaId \in DOMAIN arenas
              THEN SendAll(inbox,
                           UsersOf(arenas[b.arenaId].spectators)
                             \o UsersOf(arenas[b.arenaId].players),
                           b.msg, b.exclude)
              ELSE inbox
  /\ pending' = pending (-) SetToBag({b})
  /\ UNCHANGED <<store, connectedClients, sockets, accepted, proc, ops>>

----------------------------------------------------------------------------
\* Settlement: completeArena(arenaId, winnerId), lines 611-687.

\* What the caller of completeArena does with its result: the HTTP handler
\* reads result.winner (a TypeError on undefined) and answers 200, or 500
\* from its catch; the update_score handler ignores the result, and its
\* catch sends an error envelope.
CA_Code(p, result) ==
  IF proc[p].k = "complete"
  THEN (IF result = "settled" THEN 200 ELSE 500)
  ELSE 0

\* Lines 506-512: the envelope the catch of the message handler sends.
ProcessingError == Env("error", NoId, NoUser, "Failed to process message", 0)

\* A catch that sends nothing.
CA_Inbox_Silent(p, ib, result) == ib

CA_Inbox(p, ib, result) ==
  IF proc[p].k = "update_score" /\ result = "throw"
  THEN Send(ib, proc[p].sock, ProcessingError)
  ELSE ib

\* The first player from position i on who is not the winner (0: none).
NextLoser(players, w, i) ==
  LET js == {j \in i..Len(players) : players[j].user # w} IN
  IF js = {} THEN 0 ELSE CHOOSE j \in js : \A k \in js : j <= k

\* The guard of line 614 without its test of the status.
CA_AlreadySettled_NoStatus(arenaId) == arenaId \notin DOMAIN arenas

\* Lines 613-618: the arena is read; a missing or finished arena returns
\* undefined.
CA_AlreadySettled(arenaId) ==
  arenaId \notin DOMAIN arenas \/ arenas[arenaId].status = "finished"

CA_findArena(p) ==
  /\ proc[p].pc = "ca613"
  /\ IF CA_AlreadySettled(proc[p].arenaId)
     THEN /\ proc' = EndProc(p, CA_Code(p, "undefined"))
          /\ inbox' = CA_Inbox(p, inbox, "undefined")
     ELSE /\ proc' = [proc EXCEPT ![p].pc = "ca619",
                                  ![p].loc = [arena |-> arenas[proc[p].arenaId]]]
          /\ UNCHANGED inbox
  /\ UNCHANGED <<store, connectedClients, sockets, pending, accepted, ops>>

\* document.save() of a winner path: it is written when the value assigned
\* differs from the value read (a request without winnerId assigns
\* undefined to a path that was undefined, which modifies nothing).
SaveWinner(stored, read, winnerId) ==
  IF winnerId # read THEN winnerId ELSE stored

\* Line 619: arena.save() writes the modified paths status, endedAt, winner.
CA_saveArena(p) ==
  /\ proc[p].pc = "ca619"
  /\ arenas' = [arenas EXCEPT
       ![proc[p].arenaId].status = "finished",
       ![proc[p].arenaId].winner =
          SaveWinner(@, proc[p].loc.arena.winner, proc[p].uid)]
  /\ proc' = [proc EXCEPT ![p].pc = "ca622"]
  /\ UNCHANGED <<users, charts, donations, ledger, notifications,
                 connectedClients, sockets, inbox, pending, accepted, ops>>

\* A prize that is the chart's prize pool.
TotalPrize_Pool(chart) == chart.prizePool

\* Lines 622-625, 629: the chart is read and the prize computed from it.
TotalPrize(chart) == chart.entryFee * Len(chart.participants)

CA_findChart(p) ==
  /\ proc[p].pc = "ca622"
  /\ LET c == proc[p].loc.arena.chart IN
     proc' = [proc EXCEPT ![p].pc = "ca626",
                          ![p].chartId = c,
                          ![p].loc = [arena |-> proc[p].loc.arena,
                                      chart |-> charts[c]]]
  /\ UNCHANGED <<store, connectedClients, sockets, inbox, pending, accepted, ops>>

\* Line 626: chart.save() writes status, winner, endsAt.
CA_saveChart(p) ==
  /\ proc[p].pc = "ca626"
  /\ charts' = [charts EXCEPT
       ![proc[p].chartId].status = "completed",
       ![proc[p].chartId].winner =
          SaveWinner(@, proc[p].loc.chart.winner, proc[p].uid)]
  /\ proc' = [proc EXCEPT ![p].pc = "ca632"]
  /\ UNCHANGED <<users, arenas, donations, ledger, notifications,
                 connectedClients, sockets, inbox, pending, accepted, ops>>

\* Lines 632-635: the winner is read; a request without winnerId gives
\* null, and winner.balance throws into the catch of line 683, which
\* rethrows.
CA_findWinner(p) ==
  /\ proc[p].pc = "ca632"
  /\ IF proc[p].uid \notin Users
     THEN /\ proc' = EndProc(p, CA_Code(p, "throw"))
          /\ inbox' = CA_Inbox(p, inbox, "throw")
     ELSE /\ proc' = [proc EXCEPT ![p].pc = "ca636",
                ![p].loc = [arena |-> proc[p].loc.arena,
                            chart |-> proc[p].loc.chart,
                            prize |-> TotalPrize(proc[p].loc.chart),
                            winner |-> users[proc[p].uid]]]
          /\ UNCHANGED inbox
  /\ UNCHANGED <<store, connectedClients, sockets, pending, accepted, ops>>

\* Lines 633-635.
Awarded(winner, prize) ==
  [winner EXCEPT !.balance = @ + prize, !.totalEarned = @ + prize,
                 !.chartsWon = @ + 1]

\* Line 636: winner.save().
CA_saveWinner(p) ==
  /\ proc[p].pc = "ca636"
  /\ users' = SaveUser(users, proc[p].uid, proc[p].loc.winner,
                       Awarded(proc[p].loc.winner, proc[p].loc.prize))
  /\ proc' = [proc EXCEPT ![p].pc = "ca648"]
  /\ UNCHANGED <<charts, arenas, donations, ledger, notifications,
                 connectedClients, sockets, inbox, pending, accepted, ops>>

\* Lines 674-682: the arena_completed broadcast is started and the result
\* returned.
CA_Completed(p) ==
  Env("arena_completed", proc[p].arenaId, proc[p].uid, proc[p].loc.prize, 0)

\* Lines 639-648: the prize transaction is saved; then the loop of line 651
\* reaches its first notification.save(), or there is none.
CA_saveTransaction(p) ==
  /\ proc[p].pc = "ca648"
  /\ ledger' = Append(ledger,
        Transaction(proc[p].uid, "prize", proc[p].loc.prize,
                    proc[p].loc.winner.balance + proc[p].loc.prize,
                    ChartRef(proc[p].chartId)))
  /\ LET j == NextLoser(proc[p].loc.arena.players, proc[p].uid, 1) IN
     IF j = 0
     THEN /\ proc' = EndProc(p, CA_Code(p, "settled"))
          /\ pending' = Broadcast(pending, proc[p].arenaId, CA_Completed(p), NoUser)
     ELSE /\ proc' = [proc EXCEPT ![p].pc = "ca660", ![p].idx = j]
          /\ UNCHANGED pending
  /\ UNCHANGED <<users, charts, arenas, donations, notifications,
                 connectedClients, sockets, inbox, accepted, ops>>

\* Lines 653-669: one chart_completed notification is saved and sent to its
\* user when connected; then the next one, or lines 674-682.
CA_saveNotification(p) ==
  /\ proc[p].pc = "ca660"
  /\ LET u == proc[p].loc.arena.players[proc[p].idx].user
         j == NextLoser(proc[p].loc.arena.players, proc[p].uid, proc[p].idx + 1)
     IN
     /\ notifications' = Append(notifications,
                                Notification(u, "chart_completed", proc[p].chartId))
     /\ inbox' = SendToUser(inbox, u,
                    Env("notification", NoId, u, "chart_completed", 0))
     /\ IF j = 0
        THEN /\ proc' = EndProc(p, CA_Code(p, "settled"))
             /\ pending' = Broadcast(pending, proc[p].arenaId, CA_Completed(p), NoUser)
        ELSE /\ proc' = [proc EXCEPT ![p].idx = j]
             /\ UNCHANGED pending
  /\ UNCHANGED <<users, charts, arenas, donations, ledger,
                 connectedClients, sockets, accepted, ops>>

completeArena(p) ==
  \/ CA_findArena(p)
  \/ CA_saveArena(p)
  \/ CA_findChart(p)
  \/ CA_saveChart(p)
  \/ CA_findWinner(p)
  \/ CA_saveWinner(p)
  \/ CA_saveTransaction(p)
  \/ CA_saveNotification(p)

\* POST /api/arenas/:arenaId/complete, lines 1647-1662: the request arrives
\* and completeArena is called with the winnerId of its body.
HttpComplete(p, a, w) ==
  /\ Free(p)
  /\ proc' = [proc EXCEPT ![p] =
                NewProc("complete", "ca613", NoSocket, NoUser, a, NoId, w, 0)]
  /\ ops' = ops + 1
  /\ UNCHANGED <<store, connectedClients, sockets, inbox, pending, accepted>>

----------------------------------------------------------------------------
\* The update_score message, lines 444-482.

\* A test that every user passes.
IsPlayer_Anyone(arena, u) == TRUE

\* The filter 'players.user': u of lines 450-453 and 460.
IsPlayer(arena, u) == \E i \in DOMAIN arena.players : arena.players[i].user = u

\* Lines 445-447: the message arrives on socket s; without ws.userId the
\* handler breaks.
WsUpdateScore(p, s, a, player, score) ==
  /\ Free(p)
  /\ sockets[s].readyState = "OPEN"
  /\ proc' = [proc EXCEPT ![p] =
       IF sockets[s].userId = NoUser
       THEN [NewProc("update_score", "done", s, NoUser, a, NoId, player, score)
               EXCEPT !.fin = FALSE]
       ELSE NewProc("update_score", "us450", s, sockets[s].userId, a, NoId,
                    player, score)]
  /\ ops' = ops + 1
  /\ UNCHANGED <<store, connectedClients, sockets, inbox, pending, accepted>>

\* Lines 450-455: Arena.findOne({_id, 'players.user': ws.userId}).
US_findOne(p) ==
  /\ proc[p].pc = "us450"
  /\ proc' = IF /\ proc[p].arenaId \in DOMAIN arenas
               /\ IsPlayer(arenas[proc[p].arenaId], proc[p].caller)
            THEN [proc EXCEPT ![p].pc = "us459"]
            ELSE EndProc(p, 0)
  /\ UNCHANGED <<store, connectedClients, sockets, inbox, pending, accepted, ops>>

\* Lines 456-462: the update document is an object literal with the key $set
\* twice, so its value is the second one, { updatedAt }: the score and the
\* moves are not written.  Timestamps are not part of the model, so the
\* arena document is as before.
ScoreUpdateDoc(arena, player, score) == arena

\* Lines 459-471: Arena.updateOne, then the score_update broadcast is started.
US_updateOne(p) ==
  /\ proc[p].pc = "us459"
  /\ LET a == proc[p].arenaId IN
     /\ arenas' = IF IsPlayer(arenas[a], proc[p].uid)
                  THEN [arenas EXCEPT ![a] =
                          ScoreUpdateDoc(@, proc[p].uid, proc[p].val)]
                  ELSE arenas
     /\ accepted' = Append(accepted, Accepted("score_update", a, proc[p].op, NoSocket, NoUser))
     /\ pending' = Broadcast(pending, a,
                      Env("score_update", a, proc[p].uid, proc[p].val, proc[p].op),
                      NoUser)
  /\ proc' = [proc EXCEPT ![p].pc = "us474"]
  /\ UNCHANGED <<users, charts, donations, ledger, notifications,
                 connectedClients, sockets, inbox, ops>>

\* A threshold one point above the default.
WinScore_Above(chart) == DefaultWinScore + 1

\* Line 475: the chart schema has no winScore, so the default applies.
WinScore(chart) == DefaultWinScore

\* Lines 474-480: the arena is read again with its chart; at or above the
\* win score completeArena(arenaId, playerId) is called.
US_findById(p) ==
  /\ proc[p].pc = "us474"
  /\ proc' = IF proc[p].val >= WinScore(charts[arenas[proc[p].arenaId].chart])
            THEN [proc EXCEPT ![p].pc = "ca613"]
            ELSE EndProc(p, 0)
  /\ UNCHANGED <<store, connectedClients, sockets, inbox, pending, accepted, ops>>

update_score(p) ==
  \/ US_findOne(p)
  \/ US_updateOne(p)
  \/ US_findById(p)

----------------------------------------------------------------------------
\* The connection registry: auth (lines 330-370) and close (lines 516-553).

RECURSIVE SendEach(_, _, _, _)
SendEach(ib, n, msg, exclude) ==
  IF n = 0 THEN ib
  ELSE SendEach(IF n # exclude THEN SendToUser(ib, n, msg) ELSE ib,
                n - 1, msg, exclude)

\* Lines 600-608: every registered client but excludeUserId whose socket is
\* open is sent the envelope.
broadcastToAll(ib, msg, exclude) == SendEach(ib, NumUsers, msg, exclude)

\* A registry that keeps the socket it has for a user.
Register_KeepFirst(cc, u, s) ==
  IF cc[u] # NoSocket THEN cc ELSE [cc EXCEPT ![u] = s]

\* Lines 337-342: connectedClients.set(decoded.id, { ws, ... }).
Register(cc, u, s) == [cc EXCEPT ![u] = s]

\* Line 521: connectedClients.delete(ws.userId).
Unregister(cc, u, s) == [cc EXCEPT ![u] = NoSocket]

\* Lines 330-345: an auth message with a token of user u arrives on socket s
\* (u = NoUser: a token jwt.verify rejects, answered with auth_error).
WsAuth(p, s, u) ==
  /\ Free(p)
  /\ sockets[s].readyState = "OPEN"
  /\ ops' = ops + 1
  /\ IF u = NoUser
     THEN /\ proc' = [proc EXCEPT ![p] =
                 NewProc("auth", "done", s, NoUser, NoId, NoId, u, 0)]
          /\ inbox' = Send(inbox, s, Env("auth_error", NoId, NoUser, 0, 0))
          /\ UNCHANGED <<sockets, connectedClients, accepted>>
     ELSE /\ proc' = [proc EXCEPT ![p] =
                 NewProc("auth", "au345", s, u, NoId, NoId, u, 0)]
          /\ sockets' = [sockets EXCEPT ![s].userId = u]
          /\ connectedClients' = Register(connectedClients, u, s)
          /\ accepted' = Append(accepted, Accepted("auth", NoId, 0, s, u))
          /\ UNCHANGED inbox
  /\ UNCHANGED <<store, pending>>

\* Lines 345-361: the user is marked online, auth_success is sent, and the
\* status is broadcast to the other registered clients.
AU_update(p) ==
  /\ proc[p].pc = "au345"
  /\ LET u == proc[p].uid IN
     /\ users' = [users EXCEPT ![u].status = "online"]
     /\ inbox' = broadcastToAll(
                   Send(inbox, proc[p].sock,
                        Env("auth_success", NoId, u, 0, 0)),
                   Env("user_status", NoId, u, "online", 0), u)
  /\ proc' = EndProc(p, 0)
  /\ UNCHANGED <<charts, arenas, donations, ledger, notifications,
                 connectedClients, sockets, pending, accepted, ops>>

\* Lines 516-527: the close event of socket s.  With ws.userId set its
\* registry entry is deleted and the user is about to be marked offline.
CloseEvent(p, s) ==
  /\ Free(p)
  /\ sockets' = [sockets EXCEPT ![s].readyState = "CLOSED"]
  /\ ops' = ops + 1
  /\ IF sockets[s].userId = NoUser
     THEN /\ proc' = [proc EXCEPT ![p] =
                 NewProc("close", "done", s, NoUser, NoId, NoId, NoUser, 0)]
          /\ UNCHANGED connectedClients
     ELSE /\ proc' = [proc EXCEPT ![p] =
                 NewProc("close", "cl524", s, sockets[s].userId, NoId, NoId,
                         sockets[s].userId, 0)]
          /\ connectedClients' =
               Unregister(connectedClients, sockets[s].userId, s)
  /\ UNCHANGED <<store, inbox, pending, accepted>>

\* The client closes socket s.
WsClose(p, s) ==
  /\ sockets[s].readyState = "OPEN"
  /\ CloseEvent(p, s)

\* The close event of a socket the heartbeat has terminated.
WsTerminated(p, s) ==
  /\ sockets[s].readyState = "CLOSING"
  /\ CloseEvent(p, s)

\* A pong handler that does nothing.
OnPong_Ignored(sock) == sock

\* Lines 321-323: ws.on('pong').
OnPong(sock) == [sock EXCEPT !.isAlive = TRUE]

\* The client of socket s answers the ping that is outstanding.
Pong(s) ==
  /\ sockets[s].readyState = "OPEN"
  /\ sockets[s].probe = "sent"
  /\ sockets' = [sockets EXCEPT ![s] = [OnPong(@) EXCEPT !.probe = "answered"]]
  /\ UNCHANGED <<store, connectedClients, inbox, pending, accepted, proc, ops>>

\* Lines 558-564 for one client of wss.clients: a socket whose isAlive is
\* false is terminated; the others are marked and pinged.
Probe(sock) ==
  IF sock.readyState # "OPEN" THEN sock
  ELSE IF ~sock.isAlive THEN [sock EXCEPT !.readyState = "CLOSING"]
  ELSE [sock EXCEPT !.isAlive = FALSE, !.probe = "sent"]

\* Lines 557-565: the heartbeat interval fires.
Tick ==
  /\ \E s \in Sockets : sockets[s].readyState = "OPEN"
  /\ sockets' = [s \in Sockets |-> Probe(sockets[s])]
  /\ UNCHANGED <<store, connectedClients, inbox, pending, accepted, proc, ops>>

\* Lines 524-539: the user is marked offline and the status broadcast; then
\* the loop over ws.arenas reaches its first $pull, or there is none.
CL_update(p) ==
  /\ proc[p].pc = "cl524"
  /\ LET u == proc[p].uid IN
     /\ users' = [users EXCEPT ![u].status = "offline"]
     /\ inbox' = broadcastToAll(inbox,
                   Env("user_status", NoId, u, "offline", 0), u)
  /\ proc' = IF sockets[proc[p].sock].arenas = <<>>
            THEN EndProc(p, 0)
            ELSE [proc EXCEPT ![p].pc = "cl540", ![p].idx = 1,
                     ![p].loc = [cur |-> sockets[proc[p].sock].arenas[1]]]
  /\ UNCHANGED <<charts, arenas, donations, ledger, notifications,
                 connectedClients, sockets, pending, accepted, ops>>

\* $pull: { spectators: { user } } of lines 488 and 541.
PullSpectator(arena, u) ==
  [arena EXCEPT !.spectators = SelectSeq(@, LAMBDA e : e.user # u)]

\* Lines 540-549: one arena of ws.arenas loses the user as spectator, and
\* spectator_left is broadcast to it.
CL_pull(p) ==
  /\ proc[p].pc = "cl540"
  /\ LET s == proc[p].sock
         a == proc[p].loc.cur
     IN
     /\ arenas' = IF a \in DOMAIN arenas
                  THEN [arenas EXCEPT ![a] = PullSpectator(@, proc[p].uid)]
                  ELSE arenas
     /\ pending' = Broadcast(pending, a,
                      Env("spectator_left", a, proc[p].uid, 0, 0),
                      NoUser)
     /\ proc' = IF proc[p].idx < Len(sockets[s].arenas)
               THEN [proc EXCEPT ![p].idx = @ + 1,
                      ![p].loc = [cur |-> sockets[s].arenas[proc[p].idx + 1]]]
               ELSE EndProc(p, 0)
  /\ UNCHANGED <<users, charts, donations, ledger, notifications,
                 connectedClients, sockets, inbox, accepted, ops>>

close(p) == CL_update(p) \/ CL_pull(p)

----------------------------------------------------------------------------
\* Lines 326-327, 506-512: a message that is not JSON arrives on socket s;
\* JSON.parse throws and the catch sends the error envelope.
WsMalformed(p, s) ==
  /\ Free(p)
  /\ sockets[s].readyState = "OPEN"
  /\ ops' = ops + 1
  /\ proc' = [proc EXCEPT ![p] =
                NewProc("malformed", "done", s, sockets[s].userId, NoId, NoId,
                        NoUser, 0)]
  /\ inbox' = Send(inbox, s, ProcessingError)
  /\ UNCHANGED <<store, connectedClients, sockets, pending, accepted>>

----------------------------------------------------------------------------
\* The arena_chat message, lines 411-442.

NotAuthenticated == Env("error", NoId, NoUser, "Not authenticated", 0)

\* Lines 412-419: without ws.userId an error envelope is sent.
WsArenaChat(p, s, a) ==
  /\ Free(p)
  /\ sockets[s].readyState = "OPEN"
  /\ ops' = ops + 1
  /\ IF sockets[s].userId = NoUser
     THEN /\ proc' = [proc EXCEPT ![p] =
                 NewProc("arena_chat", "done", s, NoUser, a, NoId, NoUser, 0)]
          /\ inbox' = Send(inbox, s, NotAuthenticated)
     ELSE /\ proc' = [proc EXCEPT ![p] =
                 NewProc("arena_chat", "ch419", s, sockets[s].userId, a, NoId,
                         NoUser, 0)]
          /\ UNCHANGED inbox
  /\ UNCHANGED <<store, connectedClients, sockets, pending, accepted>>

\* Lines 419-428: the arena is read; a missing arena ends the handler.  The
\* entry carries ws.userId as it is now; its text is that of invocation op.
CH_findById(p) ==
  /\ proc[p].pc = "ch419"
  /\ proc' = IF proc[p].arenaId \in DOMAIN arenas
            THEN [proc EXCEPT ![p].pc = "ch430",
                   ![p].loc = [read |-> arenas[proc[p].arenaId],
                               entry |-> [user |-> sockets[proc[p].sock].userId,
                                          message |-> proc[p].op,
                                          type |-> "user"]]]
            ELSE EndProc(p, 0)
  /\ UNCHANGED <<store, connectedClients, sockets, inbox, pending, accepted, ops>>

\* A save that writes the whole document as it was read.
PushChat_Overwrite(stored, read, entry) ==
  [read EXCEPT !.chat = Append(@, entry)]

\* Line 430: arena.save() after chat.push is a $push of the entry onto the
\* stored array; the paths the handler has not modified are not written.
PushChat(stored, read, entry) ==
  [stored EXCEPT !.chat = Append(@, entry)]

CH_save(p) ==
  /\ proc[p].pc = "ch430"
  /\ arenas' = [arenas EXCEPT ![proc[p].arenaId] =
                  PushChat(@, proc[p].loc.read, proc[p].loc.entry)]
  /\ accepted' = Append(accepted,
        Accepted("arena_chat", proc[p].arenaId, proc[p].op, NoSocket, NoUser))
  /\ proc' = [proc EXCEPT ![p].pc = "ch433"]
  /\ UNCHANGED <<users, charts, donations, ledger, notifications,
                 connectedClients, sockets, inbox, pending, ops>>

\* A chat broadcast that leaves out its sender.
ChatExclude_Sender(sender) == sender

\* Lines 435-440: broadcastToArena is called without its third argument, so
\* excludeUserId is null.
ChatExclude(sender) == NoUser

\* Lines 433-440: the sender is read and the arena_chat broadcast started,
\* with nobody excluded.
CH_findUser(p) ==
  /\ proc[p].pc = "ch433"
  /\ pending' = Broadcast(pending, proc[p].arenaId,
                   Env("arena_chat", proc[p].arenaId, proc[p].loc.entry.user,
                       proc[p].loc.entry.message, proc[p].op),
                   ChatExclude(proc[p].loc.entry.user))
  /\ proc' = EndProc(p, 0)
  /\ UNCHANGED <<store, connectedClients, sockets, inbox, accepted, ops>>

arena_chat(p) == CH_findById(p) \/ CH_save(p) \/ CH_findUser(p)

----------------------------------------------------------------------------
\* The join_arena message, lines 372-409.

\* ws.arenas.add(arenaId)
SetAdd(seq, a) ==
  IF \E i \in DOMAIN seq : seq[i] = a THEN seq ELSE Append(seq, a)

\* An update that adds nothing.
AddToSet_Skip(seq, e) == seq

\* $addToSet: the element is added unless an equal one is in the array.
AddToSet(seq, e) ==
  IF \E i \in DOMAIN seq : seq[i] = e THEN seq ELSE Append(seq, e)

\* Lines 373-380: without ws.userId an error envelope is sent; else the
\* arena id is added to ws.arenas.
WsJoinArena(p, s, a) ==
  /\ Free(p)
  /\ sockets[s].readyState = "OPEN"
  /\ ops' = ops + 1
  /\ IF sockets[s].userId = NoUser
     THEN /\ proc' = [proc EXCEPT ![p] =
                 NewProc("join_arena", "done", s, NoUser, a, NoId, NoUser, 0)]
          /\ inbox' = Send(inbox, s, NotAuthenticated)
          /\ UNCHANGED sockets
     ELSE /\ proc' = [proc EXCEPT ![p] =
                 NewProc("join_arena", "ja383", s, sockets[s].userId, a, NoId,
                         NoUser, 0)]
          /\ sockets' = [sockets EXCEPT ![s].arenas = SetAdd(@, a)]
          /\ UNCHANGED inbox
  /\ UNCHANGED <<store, connectedClients, pending, accepted>>

\* Lines 383-385: $addToSet of { user, joinedAt: Date.now() }.  The element
\* is a new subdocument each time (its joinedAt, and the _id the schema gives
\* it), told apart here by the invocation that made it.
JA_addToSet(p) ==
  /\ proc[p].pc = "ja383"
  /\ arenas' = IF proc[p].arenaId \in DOMAIN arenas
               THEN [arenas EXCEPT ![proc[p].arenaId].spectators =
                       AddToSet(@, [user |-> proc[p].caller,
                                    joinedAt |-> proc[p].op])]
               ELSE arenas
  /\ proc' = [proc EXCEPT ![p].pc = "ja388"]
  /\ UNCHANGED <<users, charts, donations, ledger, notifications,
                 connectedClients, sockets, inbox, pending, accepted, ops>>

\* Lines 388-397: the user is read and spectator_joined is broadcast to the
\* arena, the joiner excluded.
JA_findUser(p) ==
  /\ proc[p].pc = "ja388"
  /\ LET u == sockets[proc[p].sock].userId IN
     pending' = Broadcast(pending, proc[p].arenaId,
                  Env("spectator_joined", proc[p].arenaId, u, 0, 0), u)
  /\ proc' = [proc EXCEPT ![p].pc = "ja400"]
  /\ UNCHANGED <<store, connectedClients, sockets, inbox, accepted, ops>>

\* Lines 400-408: the arena is read and sent to the socket as arena_state
\* (null for a missing arena).
NoArena == [missing |-> TRUE]

JA_findState(p) ==
  /\ proc[p].pc = "ja400"
  /\ inbox' = Send(inbox, proc[p].sock,
                 Env("arena_state", proc[p].arenaId, NoUser,
                     IF proc[p].arenaId \in DOMAIN arenas
                     THEN arenas[proc[p].arenaId] ELSE NoArena,
                     0))
  /\ proc' = EndProc(p, 0)
  /\ UNCHANGED <<store, connectedClients, sockets, pending, accepted, ops>>

join_arena(p) == JA_addToSet(p) \/ JA_findUser(p) \/ JA_findState(p)

----------------------------------------------------------------------------
\* The leave_arena message, lines 484-500: the arenaId of the message is not
\* read; the loop runs over all of ws.arenas.

WsLeaveArena(p, s, a) ==
  /\ Free(p)
  /\ sockets[s].readyState = "OPEN"
  /\ ops' = ops + 1
  /\ proc' = [proc EXCEPT ![p] =
       IF sockets[s].userId # NoUser /\ sockets[s].arenas # <<>>
       THEN [NewProc("leave_arena", "la487", s, sockets[s].userId, a, NoId,
                     NoUser, 0)
               EXCEPT !.idx = 1, !.loc = [cur |-> sockets[s].arenas[1]]]
       ELSE NewProc("leave_arena", "done", s, sockets[s].userId, a, NoId,
                    NoUser, 0)]
  /\ UNCHANGED <<store, connectedClients, sockets, inbox, pending, accepted>>

\* Lines 487-498: one arena of ws.arenas loses the user as spectator and
\* spectator_left is broadcast; after the last one ws.arenas is cleared.  The
\* loop ends when ws.arenas holds no further element (also when another
\* handler has cleared it meanwhile).
LA_pull(p) ==
  /\ proc[p].pc = "la487"
  /\ LET s == proc[p].sock
         u == sockets[s].userId
         a == proc[p].loc.cur
         last == proc[p].idx >= Len(sockets[s].arenas)
     IN
     /\ arenas' = IF a \in DOMAIN arenas
                  THEN [arenas EXCEPT ![a] = PullSpectator(@, u)]
                  ELSE arenas
     /\ pending' = Broadcast(pending, a,
                      Env("spectator_left", a, u, 0, 0), NoUser)
     /\ proc' = IF last THEN EndProc(p, 0)
               ELSE [proc EXCEPT ![p].idx = @ + 1,
                      ![p].loc = [cur |-> sockets[s].arenas[proc[p].idx + 1]]]
     /\ sockets' = IF last THEN [sockets EXCEPT ![s].arenas = <<>>] ELSE sockets
  /\ UNCHANGED <<users, charts, donations, ledger, notifications,
                 connectedClients, inbox, accepted, ops>>

leave_arena(p) == LA_pull(p)

----------------------------------------------------------------------------
\* POST /api/charts, lines 1040-1117.

NewChart(creator, fee, maxP) ==
  [creator |-> creator, entryFee |-> fee, prizePool |-> fee * 2,
   status |-> "open",
   participants |-> <<[user |-> creator, status |-> "active"]>>,
   maxParticipants |-> maxP, winner |-> NoUser,
   totalDonations |-> 0, donations |-> <<>>]

\* Lines 1049-1062: the body is validated.
HttpCreateChart(p, caller, fee, maxP) ==
  /\ Free(p)
  /\ ops' = ops + 1
  /\ LET new == NewProc("create_chart", "cc1062", NoSocket, caller, NoId, NoId,
                        NoUser, fee) IN
     proc' = [proc EXCEPT ![p] =
       IF fee < 0
       THEN Rejected("create_chart", 400, "Entry fee cannot be negative")
       ELSE IF maxP < 2 \/ maxP > 8
       THEN Rejected("create_chart", 400,
                     "Max participants must be between 2 and 8")
       ELSE [new EXCEPT !.idx = maxP]]
  /\ UNCHANGED <<store, connectedClients, sockets, inbox, pending, accepted>>

\* Lines 1062-1068: the creator is read and the balance checked.
CC_findUser(p) ==
  /\ proc[p].pc = "cc1062"
  /\ proc' = IF users[proc[p].caller].balance < proc[p].val
            THEN Reject(p, 400, "Insufficient balance to create chart")
            ELSE [proc EXCEPT ![p].pc = "cc1069",
                    ![p].loc = [read |-> users[proc[p].caller],
                                user |-> [users[proc[p].caller] EXCEPT
                                   !.balance = @ - proc[p].val]]]
  /\ UNCHANGED <<store, connectedClients, sockets, inbox, pending, accepted, ops>>

\* Line 1069.
CC_saveUser(p) ==
  /\ proc[p].pc = "cc1069"
  /\ users' = SaveUser(users, proc[p].caller, proc[p].loc.read, proc[p].loc.user)
  /\ proc' = [proc EXCEPT ![p].pc = "cc1081"]
  /\ UNCHANGED <<charts, arenas, donations, ledger, notifications,
                 connectedClients, sockets, inbox, pending, accepted, ops>>

\* Lines 1072-1081.
CC_saveTransaction(p) ==
  /\ proc[p].pc = "cc1081"
  /\ ledger' = Append(ledger,
        Transaction(proc[p].caller, "entry_fee", -proc[p].val,
                    proc[p].loc.user.balance, CreationRef))
  /\ proc' = [proc EXCEPT ![p].pc = "cc1105"]
  /\ UNCHANGED <<users, charts, arenas, donations, notifications,
                 connectedClients, sockets, inbox, pending, accepted, ops>>

\* Lines 1083-1105.
CC_saveChart(p) ==
  /\ proc[p].pc = "cc1105"
  /\ charts' = Append(charts, NewChart(proc[p].caller, proc[p].val, proc[p].idx))
  /\ proc' = [proc EXCEPT ![p].pc = "cc1108"]
  /\ UNCHANGED <<users, arenas, donations, ledger, notifications,
                 connectedClients, sockets, inbox, pending, accepted, ops>>

\* Lines 1108-1112: $inc of chartsCreated, and the answer.
CC_incCreated(p) ==
  /\ proc[p].pc = "cc1108"
  /\ users' = [users EXCEPT ![proc[p].caller].chartsCreated = @ + 1]
  /\ proc' = EndProc(p, 201)
  /\ UNCHANGED <<charts, arenas, donations, ledger, notifications,
                 connectedClients, sockets, inbox, pending, accepted, ops>>

create_chart(p) ==
  \/ CC_findUser(p)
  \/ CC_saveUser(p)
  \/ CC_saveTransaction(p)
  \/ CC_saveChart(p)
  \/ CC_incCreated(p)

----------------------------------------------------------------------------
\* POST /api/transactions/deposit, lines 1754-1789.

MaxDeposit == 10000

HttpDeposit(p, caller, amount) ==
  /\ Free(p)
  /\ ops' = ops + 1
  /\ LET new == NewProc("deposit", "dp1766", NoSocket, caller, NoId, NoId,
                        NoUser, amount) IN
     proc' = [proc EXCEPT ![p] =
       IF amount <= 0
       THEN Rejected("deposit", 400, "Invalid amount")
       ELSE IF amount > MaxDeposit
       THEN Rejected("deposit", 400, "Maximum deposit is 10,000 THB")
       ELSE new]
  /\ UNCHANGED <<store, connectedClients, sockets, inbox, pending, accepted>>

\* Lines 1766-1767.
DP_findUser(p) ==
  /\ proc[p].pc = "dp1766"
  /\ proc' = [proc EXCEPT ![p].pc = "dp1768",
                ![p].loc = [read |-> users[proc[p].caller],
                            user |-> [users[proc[p].caller] EXCEPT
                               !.balance = @ + proc[p].val]]]
  /\ UNCHANGED <<store, connectedClients, sockets, inbox, pending, accepted, ops>>

\* Line 1768.
DP_saveUser(p) ==
  /\ proc[p].pc = "dp1768"
  /\ users' = SaveUser(users, proc[p].caller, proc[p].loc.read, proc[p].loc.user)
  /\ proc' = [proc EXCEPT ![p].pc = "dp1778"]
  /\ UNCHANGED <<charts, arenas, donations, ledger, notifications,
                 connectedClients, sockets, inbox, pending, accepted, ops>>

\* Lines 1770-1784.
DP_saveTransaction(p) ==
  /\ proc[p].pc = "dp1778"
  /\ ledger' = Append(ledger,
        Transaction(proc[p].caller, "deposit", proc[p].val,
                    proc[p].loc.user.balance, NoRef))
  /\ proc' = EndProc(p, 200)
  /\ UNCHANGED <<users, charts, arenas, donations, notifications,
                 connectedClients, sockets, inbox, pending, accepted, ops>>

deposit(p) == DP_findUser(p) \/ DP_saveUser(p) \/ DP_saveTransaction(p)

----------------------------------------------------------------------------
\* POST /api/charts/:chartId/join, lines 1229-1360.

HttpJoin(p, caller, c) ==
  /\ Free(p)
  /\ ops' = ops + 1
  /\ proc' = [proc EXCEPT ![p] =
                NewProc("join", "jn1231", NoSocket, caller, NoId, c, NoUser, 0)]
  /\ UNCHANGED <<store, connectedClients, sockets, inbox, pending, accepted>>

\* A test that no user fails.
HasJoined_Never(chart, u) == FALSE

\* Line 1245.
HasJoined(chart, u) ==
  \E i \in DOMAIN chart.participants : chart.participants[i].user = u

\* Line 1241.
ChartFull(chart) == Len(chart.participants) >= chart.maxParticipants

\* Lines 1231-1254: the chart is read and the request checked against it.
\* (The test of line 1249 against the clock is not modelled: the request
\* arrives before the chart's start time.)
JN_findChart(p) ==
  /\ proc[p].pc = "jn1231"
  /\ LET c == proc[p].chartId IN
     proc' =
       IF c \notin DOMAIN charts THEN Reject(p, 404, "Chart not found")
       ELSE IF charts[c].status # "open" THEN Reject(p, 400, "Chart is not open")
       ELSE IF ChartFull(charts[c]) THEN Reject(p, 400, "Chart is full")
       ELSE IF HasJoined(charts[c], proc[p].caller)
       THEN Reject(p, 400, "Already joined this chart")
       ELSE [proc EXCEPT ![p].pc = "jn1254",
               ![p].loc = [readChart |-> charts[c], chart |-> charts[c]]]
  /\ UNCHANGED <<store, connectedClients, sockets, inbox, pending, accepted, ops>>

\* Lines 1254-1260: the joiner is read and the balance checked.
JN_findUser(p) ==
  /\ proc[p].pc = "jn1254"
  /\ LET u == users[proc[p].caller]
         fee == proc[p].loc.chart.entryFee
     IN
     proc' = IF u.balance < fee
             THEN Reject(p, 400, "Insufficient balance")
             ELSE [proc EXCEPT ![p].pc = "jn1261",
                     ![p].loc = [readChart |-> proc[p].loc.readChart,
                                 chart |-> proc[p].loc.chart,
                                 read |-> u,
                                 user |-> [u EXCEPT !.balance = @ - fee]]]
  /\ UNCHANGED <<store, connectedClients, sockets, inbox, pending, accepted, ops>>

\* Line 1261.
JN_saveUser(p) ==
  /\ proc[p].pc = "jn1261"
  /\ users' = SaveUser(users, proc[p].caller, proc[p].loc.read, proc[p].loc.user)
  /\ proc' = [proc EXCEPT ![p].pc = "jn1273"]
  /\ UNCHANGED <<charts, arenas, donations, ledger, notifications,
                 connectedClients, sockets, inbox, pending, accepted, ops>>

\* Lines 1276-1283: the chart in memory gets the fee and the participant.
Joined(chart, u) ==
  [chart EXCEPT !.prizePool = @ + chart.entryFee,
                !.participants = Append(@, [user |-> u, status |-> "pending"])]

\* Lines 1264-1283.
JN_saveTransaction(p) ==
  /\ proc[p].pc = "jn1273"
  /\ ledger' = Append(ledger,
        Transaction(proc[p].caller, "entry_fee", -proc[p].loc.chart.entryFee,
                    proc[p].loc.user.balance, ChartRef(proc[p].chartId)))
  /\ proc' = [proc EXCEPT ![p].pc = "jn1285",
                ![p].loc = [readChart |-> proc[p].loc.readChart,
                            chart |-> Joined(proc[p].loc.chart, proc[p].caller)]]
  /\ UNCHANGED <<users, charts, arenas, donations, notifications,
                 connectedClients, sockets, inbox, pending, accepted, ops>>

\* Lines 1285-1289: chart.save(); a chart that is full in memory is started.
JN_saveChart(p) ==
  /\ proc[p].pc = "jn1285"
  /\ charts' = SaveChart(charts, proc[p].chartId, proc[p].loc.readChart,
                         proc[p].loc.chart)
  /\ proc' = IF ChartFull(proc[p].loc.chart)
            THEN [proc EXCEPT ![p].pc = "jn1290"]
            ELSE [proc EXCEPT ![p].pc = "jn1340"]
  /\ UNCHANGED <<users, arenas, donations, ledger, notifications,
                 connectedClients, sockets, inbox, pending, accepted, ops>>

\* Line 1290: chart.save() of the status.
JN_saveStatus(p) ==
  /\ proc[p].pc = "jn1290"
  /\ charts' = [charts EXCEPT ![proc[p].chartId].status = "in-progress"]
  /\ proc' = [proc EXCEPT ![p].pc = "jn1305"]
  /\ UNCHANGED <<users, arenas, donations, ledger, notifications,
                 connectedClients, sockets, inbox, pending, accepted, ops>>

\* An arena left with the status the schema gives by default (line 207).
NewArena_Waiting(c, participants) ==
  [chart |-> c,
   players |-> [i \in 1..Len(participants) |->
                  [user |-> participants[i].user, score |-> 0, moves |-> 0,
                   status |-> "playing"]],
   status |-> "waiting", spectators |-> <<>>, chat |-> <<>>, winner |-> NoUser]

\* Lines 1293-1304: the arena of a chart, its players the participants the
\* handler holds in memory.
NewArena(c, participants) ==
  [chart |-> c,
   players |-> [i \in 1..Len(participants) |->
                  [user |-> participants[i].user, score |-> 0, moves |-> 0,
                   status |-> "playing"]],
   status |-> "live", spectators |-> <<>>, chat |-> <<>>, winner |-> NoUser]

\* Line 1305: arena.save().
JN_saveArena(p) ==
  /\ proc[p].pc = "jn1305"
  /\ arenas' = Append(arenas,
                 NewArena(proc[p].chartId, proc[p].loc.chart.participants))
  /\ proc' = [proc EXCEPT ![p].pc = "jn1316", ![p].idx = 1,
                          ![p].arenaId = Len(arenas) + 1]
  /\ UNCHANGED <<users, charts, donations, ledger, notifications,
                 connectedClients, sockets, inbox, pending, accepted, ops>>

\* Lines 1308-1326: one match_start notification is saved and sent.
JN_saveMatchStart(p) ==
  /\ proc[p].pc = "jn1316"
  /\ LET u == proc[p].loc.chart.participants[proc[p].idx].user IN
     /\ notifications' = Append(notifications,
                           Notification(u, "match_start", proc[p].chartId))
     /\ inbox' = SendToUser(inbox, u,
                   Env("notification", NoId, u, "match_start", 0))
  /\ proc' = IF proc[p].idx < Len(proc[p].loc.chart.participants)
            THEN [proc EXCEPT ![p].idx = @ + 1]
            ELSE [proc EXCEPT ![p].pc = "jn1340"]
  /\ UNCHANGED <<users, charts, arenas, donations, ledger,
                 connectedClients, sockets, pending, accepted, ops>>

\* Lines 1330-1355: after the reads of the creator and the joiner, the
\* chart_joined notification is saved and sent to the creator, and the
\* request answered.
JN_saveNotification(p) ==
  /\ proc[p].pc = "jn1340"
  /\ LET u == proc[p].loc.chart.creator IN
     /\ notifications' = Append(notifications,
                           Notification(u, "chart_joined", proc[p].chartId))
     /\ inbox' = SendToUser(inbox, u,
                   Env("notification", NoId, u, "chart_joined", 0))
  /\ proc' = EndProc(p, 200)
  /\ UNCHANGED <<users, charts, arenas, donations, ledger,
                 connectedClients, sockets, pending, accepted, ops>>

join(p) ==
  \/ JN_findChart(p)
  \/ JN_findUser(p)
  \/ JN_saveUser(p)
  \/ JN_saveTransaction(p)
  \/ JN_saveChart(p)
  \/ JN_saveStatus(p)
  \/ JN_saveArena(p)
  \/ JN_saveMatchStart(p)
  \/ JN_saveNotification(p)

----------------------------------------------------------------------------
\* POST /api/donations, lines 1449-1573.

\* Lines 1451-1463: the amount is validated.  pre records the balances and
\* the chart total the request arrives at.
HttpDonate(p, caller, c, recipient, amount) ==
  /\ Free(p)
  /\ ops' = ops + 1
  /\ LET new == [NewProc("donate", "dn1463", NoSocket, caller, NoId, c,
                         recipient, amount)
                   EXCEPT !.pre =
                     [donor |-> users[caller].balance,
                      recipient |-> IF recipient \in Users
                                    THEN users[recipient].balance ELSE 0,
                      total |-> IF c \in DOMAIN charts
                                THEN charts[c].totalDonations ELSE 0]]
     IN
     proc' = [proc EXCEPT ![p] =
       IF amount <= 0
       THEN Rejected("donate", 400, "Invalid donation amount")
       ELSE IF amount < MinDonation
       THEN Rejected("donate", 400, "Minimum donation is 10 THB")
       ELSE new]
  /\ UNCHANGED <<store, connectedClients, sockets, inbox, pending, accepted>>

\* Lines 1463-1466.
DN_findUser(p) ==
  /\ proc[p].pc = "dn1463"
  /\ proc' = IF users[proc[p].caller].balance < proc[p].val
            THEN Reject(p, 400, "Insufficient balance")
            ELSE [proc EXCEPT ![p].pc = "dn1468",
                    ![p].loc = [read |-> users[proc[p].caller]]]
  /\ UNCHANGED <<store, connectedClients, sockets, inbox, pending, accepted, ops>>

\* Lines 1468-1471.
DN_findChart(p) ==
  /\ proc[p].pc = "dn1468"
  /\ proc' = IF proc[p].chartId \notin DOMAIN charts
            THEN Reject(p, 404, "Chart not found")
            ELSE [proc EXCEPT ![p].pc = "dn1473",
                    ![p].loc = [read |-> proc[p].loc.read,
                                readChart |-> charts[proc[p].chartId]]]
  /\ UNCHANGED <<store, connectedClients, sockets, inbox, pending, accepted, ops>>

\* Lines 1473-1491.
DN_findRecipient(p) ==
  /\ proc[p].pc = "dn1473"
  /\ proc' = IF proc[p].uid \notin Users
            THEN Reject(p, 404, "Recipient not found")
            ELSE [proc EXCEPT ![p].pc = "dn1493",
                    ![p].loc = [read |-> proc[p].loc.read,
                                readChart |-> proc[p].loc.readChart,
                                readRecipient |-> users[proc[p].uid]]]
  /\ UNCHANGED <<store, connectedClients, sockets, inbox, pending, accepted, ops>>

\* Lines 1482-1493: the donation is saved, with status completed.
NewDonation(u, c, r, amount) ==
  [user |-> u, chart |-> c, recipient |-> r, amount |-> amount,
   status |-> "completed"]

DN_saveDonation(p) ==
  /\ proc[p].pc = "dn1493"
  /\ donations' = Append(donations,
        NewDonation(proc[p].caller, proc[p].chartId, proc[p].uid, proc[p].val))
  /\ proc' = [proc EXCEPT ![p].pc = "dn1498", ![p].idx = Len(donations) + 1]
  /\ UNCHANGED <<users, charts, arenas, ledger, notifications,
                 connectedClients, sockets, inbox, pending, accepted, ops>>

\* Lines 1496-1497.
Debited(user, amount) ==
  [user EXCEPT !.balance = @ - amount, !.totalSupported = @ + amount]

\* A credit that counts the earnings and leaves the balance.
Credited_EarnedOnly(recipient, amount) ==
  [recipient EXCEPT !.totalEarned = @ + amount]

\* Lines 1501-1502.
Credited(recipient, amount) ==
  [recipient EXCEPT !.balance = @ + amount, !.totalEarned = @ + amount]

\* Line 1498: user.save().
DN_saveUser(p) ==
  /\ proc[p].pc = "dn1498"
  /\ users' = SaveUser(users, proc[p].caller, proc[p].loc.read,
                       Debited(proc[p].loc.read, proc[p].val))
  /\ proc' = [proc EXCEPT ![p].pc = "dn1503"]
  /\ UNCHANGED <<charts, arenas, donations, ledger, notifications,
                 connectedClients, sockets, inbox, pending, accepted, ops>>

\* Line 1503: recipient.save().
DN_saveRecipient(p) ==
  /\ proc[p].pc = "dn1503"
  /\ users' = SaveUser(users, proc[p].uid, proc[p].loc.readRecipient,
                       Credited(proc[p].loc.readRecipient, proc[p].val))
  /\ proc' = [proc EXCEPT ![p].pc = "dn1516"]
  /\ UNCHANGED <<charts, arenas, donations, ledger, notifications,
                 connectedClients, sockets, inbox, pending, accepted, ops>>

\* Lines 1506-1516: the donor's transaction, with the donor's balance in
\* memory.
DN_saveDonorTransaction(p) ==
  /\ proc[p].pc = "dn1516"
  /\ ledger' = Append(ledger,
        Transaction(proc[p].caller, "donation", -proc[p].val,
                    Debited(proc[p].loc.read, proc[p].val).balance,
                    DonationRef(proc[p].idx)))
  /\ proc' = [proc EXCEPT ![p].pc = "dn1529"]
  /\ UNCHANGED <<users, charts, arenas, donations, notifications,
                 connectedClients, sockets, inbox, pending, accepted, ops>>

\* Lines 1519-1529: the recipient's transaction.
DN_saveRecipientTransaction(p) ==
  /\ proc[p].pc = "dn1529"
  /\ ledger' = Append(ledger,
        Transaction(proc[p].uid, "donation", proc[p].val,
                    Credited(proc[p].loc.readRecipient, proc[p].val).balance,
                    DonationRef(proc[p].idx)))
  /\ proc' = [proc EXCEPT ![p].pc = "dn1534"]
  /\ UNCHANGED <<users, charts, arenas, donations, notifications,
                 connectedClients, sockets, inbox, pending, accepted, ops>>

\* Lines 1532-1533.
Donated(chart, d, amount) ==
  [chart EXCEPT !.donations = Append(@, d), !.totalDonations = @ + amount]

\* Line 1534: chart.save().
DN_saveChart(p) ==
  /\ proc[p].pc = "dn1534"
  /\ charts' = SaveChart(charts, proc[p].chartId, proc[p].loc.readChart,
                  Donated(proc[p].loc.readChart, proc[p].idx, proc[p].val))
  /\ proc' = [proc EXCEPT ![p].pc = "dn1553"]
  /\ UNCHANGED <<users, arenas, donations, ledger, notifications,
                 connectedClients, sockets, inbox, pending, accepted, ops>>

\* Lines 1537-1568: after the read of the donor, the notification is saved
\* and sent to the recipient, and the request answered.
DN_saveNotification(p) ==
  /\ proc[p].pc = "dn1553"
  /\ notifications' = Append(notifications,
                        Notification(proc[p].uid, "donation", proc[p].chartId))
  /\ inbox' = SendToUser(inbox, proc[p].uid,
                Env("notification", NoId, proc[p].uid, "donation", 0))
  /\ proc' = EndProc(p, 201)
  /\ UNCHANGED <<users, charts, arenas, donations, ledger,
                 connectedClients, sockets, pending, accepted, ops>>

donate(p) ==
  \/ DN_findUser(p)
  \/ DN_findChart(p)
  \/ DN_findRecipient(p)
  \/ DN_saveDonation(p)
  \/ DN_saveUser(p)
  \/ DN_saveRecipient(p)
  \/ DN_saveDonorTransaction(p)
  \/ DN_saveRecipientTransaction(p)
  \/ DN_saveChart(p)
  \/ DN_saveNotification(p)

----------------------------------------------------------------------------
\* States the server reaches, used as initial states.

\* After the registration of every user (lines 740-763).
Registered == [u \in Users |-> NewUser]

BonusLedger ==
  [u \in 1..NumUsers |-> Transaction(u, "bonus", WelcomeBonus, WelcomeBonus, NoRef)]

NoProcs == [p \in Procs |-> IdleProc]

\* After user 1 has created a chart for two with the entry fee (lines
\* 1061-1110) and user 2 has joined it (lines 1231-1349), which started the
\* arena.
ChartStarted ==
  [creator |-> 1, entryFee |-> EntryFee, prizePool |-> 3 * EntryFee,
   status |-> "in-progress",
   participants |-> <<[user |-> 1, status |-> "active"],
                      [user |-> 2, status |-> "pending"]>>,
   maxParticipants |-> 2, winner |-> NoUser,
   totalDonations |-> 0, donations |-> <<>>]

ArenaStarted ==
  [chart |-> 1,
   players |-> <<[user |-> 1, score |-> 0, moves |-> 0, status |-> "playing"],
                 [user |-> 2, score |-> 0, moves |-> 0, status |-> "playing"]>>,
   status |-> "live", spectators |-> <<>>, chat |-> <<>>, winner |-> NoUser]

StoreStarted(online) ==
  /\ users = [u \in Users |->
       [NewUser EXCEPT
          !.balance = IF u \in {1, 2} THEN WelcomeBonus - EntryFee ELSE @,
          !.chartsCreated = IF u = 1 THEN 1 ELSE 0,
          !.status = IF u \in online THEN "online" ELSE @]]
  /\ charts = <<ChartStarted>>
  /\ arenas = <<ArenaStarted>>
  /\ donations = <<>>
  /\ ledger = BonusLedger \o
       <<Transaction(1, "entry_fee", -EntryFee, WelcomeBonus - EntryFee, CreationRef),
         Transaction(2, "entry_fee", -EntryFee, WelcomeBonus - EntryFee, ChartRef(1))>>
  /\ notifications = <<Notification(1, "match_start", 1),
                       Notification(2, "match_start", 1),
                       Notification(1, "chart_joined", 1)>>

\* After user 1 has created a chart for two with the entry fee (lines
\* 1061-1110).
ChartOpen == NewChart(1, EntryFee, 2)

StoreOpen(online) ==
  /\ users = [u \in Users |->
       [NewUser EXCEPT
          !.balance = IF u = 1 THEN WelcomeBonus - EntryFee ELSE @,
          !.chartsCreated = IF u = 1 THEN 1 ELSE 0,
          !.status = IF u \in online THEN "online" ELSE @]]
  /\ charts = <<ChartOpen>>
  /\ arenas = <<>>
  /\ donations = <<>>
  /\ ledger = BonusLedger \o
       <<Transaction(1, "entry_fee", -EntryFee, WelcomeBonus - EntryFee, CreationRef)>>
  /\ notifications = <<>>

\* Every socket is connected (line 315) and nobody has authenticated.
SocketsOpen ==
  /\ connectedClients = [u \in Users |-> NoSocket]
  /\ sockets = [s \in Sockets |-> NewSocket]
  /\ inbox = [s \in Sockets |-> <<>>]
  /\ accepted = <<>>

\* Sockets 1 and 2 have authenticated as the two players, in this order.
PlayersConnected ==
  /\ connectedClients = [u \in Users |-> IF u \in {1, 2} THEN u ELSE NoSocket]
  /\ sockets = [s \in Sockets |->
       IF s \in {1, 2} THEN [NewSocket EXCEPT !.userId = s] ELSE NewSocket]
  /\ inbox = [s \in Sockets |->
       IF s = 1 THEN <<Env("auth_success", NoId, 1, 0, 0),
                       Env("user_status", NoId, 2, "online", 0)>>
       ELSE IF s = 2 THEN <<Env("auth_success", NoId, 2, 0, 0)>>
       ELSE <<>>]
  /\ accepted = <<Accepted("auth", NoId, 0, 1, 1), Accepted("auth", NoId, 0, 2, 2)>>

\* Socket 1 has authenticated as player 1 and then socket 2 as user 3, who
\* plays in no arena.
WatcherConnected ==
  /\ connectedClients = [u \in Users |-> IF u = 1 THEN 1 ELSE IF u = 3 THEN 2
                                                 ELSE NoSocket]
  /\ sockets = [s \in Sockets |->
       IF s = 1 THEN [NewSocket EXCEPT !.userId = 1]
       ELSE IF s = 2 THEN [NewSocket EXCEPT !.userId = 3] ELSE NewSocket]
  /\ inbox = [s \in Sockets |->
       IF s = 1 THEN <<Env("auth_success", NoId, 1, 0, 0),
                       Env("user_status", NoId, 3, "online", 0)>>
       ELSE IF s = 2 THEN <<Env("auth_success", NoId, 3, 0, 0)>>
       ELSE <<>>]
  /\ accepted = <<Accepted("auth", NoId, 0, 1, 1), Accepted("auth", NoId, 0, 2, 3)>>

NoWork ==
  /\ pending = EmptyBag
  /\ proc = NoProcs
  /\ ops = 0

----------------------------------------------------------------------------
\* Settlement: complete requests and update_score messages on the started
\* arena, interleaved at their awaits.

Scores == {50, DefaultWinScore}
ArenaIds == {1, 2}
WinnerIds == Users \cup {NoUser}

InitSettle ==
  /\ StoreStarted({1, 2})
  /\ PlayersConnected
  /\ NoWork

StartSettle(p) ==
  \/ \E a \in ArenaIds, w \in WinnerIds : HttpComplete(p, a, w)
  \/ \E s \in Sockets, u \in Users, n \in Scores : WsUpdateScore(p, s, 1, u, n)

StepSettle ==
  \/ \E p \in Procs : completeArena(p) \/ update_score(p)
  \/ \E b \in BagToSet(pending) : broadcastToArena(b)

NextSettle == (ops < MaxOps /\ \E p \in Procs : StartSettle(p)) \/ StepSettle

SpecSettle == InitSettle /\ [][NextSettle]_vars

\* The same handlers run one after the other: a handler starts when no
\* other is running.
NextSettleSeq ==
  \/ AllIdle /\ ops < MaxSeqOps /\ \E p \in Procs : StartSettle(p)
  \/ StepSettle

SpecSettleSeq == InitSettle /\ [][NextSettleSeq]_vars

----------------------------------------------------------------------------
\* Money: joins, donations and deposits on the chart user 1 has opened,
\* interleaved at their awaits.

ChartIds == {1, 2}
Recipients == Users \cup {NoUser}
DonationAmounts == {5, 30}
DepositAmounts == {0, 50, MaxDeposit + 1}

InitMoney ==
  /\ StoreOpen({1, 2})
  /\ PlayersConnected
  /\ NoWork

StartMoney(p) ==
  \/ \E u \in Users, c \in ChartIds : HttpJoin(p, u, c)
  \/ \E u \in Users, c \in ChartIds, r \in Recipients, a \in DonationAmounts :
       HttpDonate(p, u, c, r, a)
  \/ \E u \in Users, a \in DepositAmounts : HttpDeposit(p, u, a)

StepMoney == \E p \in Procs : join(p) \/ donate(p) \/ deposit(p)

NextMoney == (ops < MaxOps /\ \E p \in Procs : StartMoney(p)) \/ StepMoney

SpecMoney == InitMoney /\ [][NextMoney]_vars

\* The same handlers, and chart creation, run one after the other.
Fees == {-1, EntryFee}
Sizes == {1, 2, 3}

StartMoneySeq(p) ==
  \/ StartMoney(p)
  \/ \E u \in Users, f \in Fees, n \in Sizes : HttpCreateChart(p, u, f, n)

NextMoneySeq ==
  \/ AllIdle /\ ops < MaxSeqOps /\ \E p \in Procs : StartMoneySeq(p)
  \/ StepMoney
  \/ \E p \in Procs : create_chart(p)

SpecMoneySeq == InitMoney /\ [][NextMoneySeq]_vars

----------------------------------------------------------------------------
\* The life of the chart user 1 has opened: joins and complete requests,
\* interleaved at their awaits.

StartLife(p) ==
  \/ \E u \in Users : HttpJoin(p, u, 1)
  \/ \E a \in ArenaIds, w \in Users : HttpComplete(p, a, w)

StepLife ==
  \/ \E p \in Procs : join(p) \/ completeArena(p)
  \/ \E b \in BagToSet(pending) : broadcastToArena(b)

NextLife == (ops < MaxLifeOps /\ \E p \in Procs : StartLife(p)) \/ StepLife

SpecLife == InitMoney /\ [][NextLife]_vars

----------------------------------------------------------------------------
\* A spectator: join_arena and arena_chat messages of player 1 and of user
\* 3 on the started arena, interleaved at their awaits.

InitWatch ==
  /\ StoreStarted({1, 3})
  /\ WatcherConnected
  /\ NoWork

StartWatch(p) ==
  \/ \E s \in Sockets, a \in ArenaIds : WsJoinArena(p, s, a)
  \/ \E s \in Sockets, a \in ArenaIds : WsArenaChat(p, s, a)

StepWatch ==
  \/ \E p \in Procs : join_arena(p) \/ arena_chat(p)
  \/ \E b \in BagToSet(pending) : broadcastToArena(b)

NextWatch == (ops < MaxWatchOps /\ \E p \in Procs : StartWatch(p)) \/ StepWatch

SpecWatch == InitWatch /\ [][NextWatch]_vars

----------------------------------------------------------------------------
\* The WebSocket handlers and the complete requests on the started arena,
\* interleaved at their awaits.

Tokens == Users \cup {NoUser}

InitWs ==
  /\ StoreStarted({1, 2})
  /\ PlayersConnected
  /\ NoWork

StartWs(p) ==
  \/ \E s \in Sockets, u \in Tokens : WsAuth(p, s, u)
  \/ \E s \in Sockets : WsClose(p, s)
  \/ \E s \in Sockets, a \in ArenaIds : WsJoinArena(p, s, a)
  \/ \E s \in Sockets : WsLeaveArena(p, s, 1)
  \/ \E s \in Sockets, a \in ArenaIds : WsArenaChat(p, s, a)
  \/ \E s \in Sockets, u \in Users, n \in Scores : WsUpdateScore(p, s, 1, u, n)
  \/ \E a \in ArenaIds, w \in WinnerIds : HttpComplete(p, a, w)

StepWs ==
  \/ \E p \in Procs : AU_update(p) \/ close(p) \/ join_arena(p)
  \/ \E p \in Procs : leave_arena(p) \/ arena_chat(p) \/ update_score(p)
  \/ \E p \in Procs : completeArena(p)
  \/ \E b \in BagToSet(pending) : broadcastToArena(b)

NextWs == (ops < MaxOps /\ \E p \in Procs : StartWs(p)) \/ StepWs

SpecWs == InitWs /\ [][NextWs]_vars

----------------------------------------------------------------------------
\* Messages on an authenticated and on an unauthenticated socket, for the
\* started arena and for an arena that does not exist.

\* Socket 1 has authenticated as player 1; socket 2 is connected and has
\* not authenticated.
OneConnected ==
  /\ connectedClients = [u \in Users |-> IF u = 1 THEN 1 ELSE NoSocket]
  /\ sockets = [s \in Sockets |->
       IF s = 1 THEN [NewSocket EXCEPT !.userId = 1] ELSE NewSocket]
  /\ inbox = [s \in Sockets |->
       IF s = 1 THEN <<Env("auth_success", NoId, 1, 0, 0)>> ELSE <<>>]
  /\ accepted = <<Accepted("auth", NoId, 0, 1, 1)>>

InitMsg ==
  /\ StoreStarted({1})
  /\ OneConnected
  /\ NoWork

StartMsg(p) ==
  \/ \E s \in Sockets, u \in Tokens : WsAuth(p, s, u)
  \/ \E s \in Sockets, a \in ArenaIds : WsJoinArena(p, s, a)
  \/ \E s \in Sockets, a \in ArenaIds : WsLeaveArena(p, s, a)
  \/ \E s \in Sockets, a \in ArenaIds : WsArenaChat(p, s, a)
  \/ \E s \in Sockets, a \in ArenaIds, u \in WinnerIds, n \in Scores :
       WsUpdateScore(p, s, a, u, n)
  \/ \E s \in Sockets : WsMalformed(p, s)

StepMsg ==
  \/ \E p \in Procs : AU_update(p) \/ join_arena(p) \/ leave_arena(p)
  \/ \E p \in Procs : arena_chat(p) \/ update_score(p) \/ completeArena(p)
  \/ \E b \in BagToSet(pending) : broadcastToArena(b)

NextMsg == (ops < MaxOps /\ \E p \in Procs : StartMsg(p)) \/ StepMsg

SpecMsg == InitMsg /\ [][NextMsg]_vars

\* The same messages handled one after the other.
NextMsgSeq ==
  \/ AllIdle /\ ops < MaxSeqOps /\ \E p \in Procs : StartMsg(p)
  \/ StepMsg

SpecMsgSeq == InitMsg /\ [][NextMsgSeq]_vars

----------------------------------------------------------------------------
\* Funds: chart creations, joins, donations, deposits and complete requests
\* with amounts near the balances, on the started arena, interleaved at
\* their awaits.

LargeAmount == WelcomeBonus - MinDonation
FundAmounts == {MinDonation - 1, LargeAmount}

StartFunds(p) ==
  \/ \E u \in Users, f \in {EntryFee, LargeAmount} : HttpCreateChart(p, u, f, 2)
  \/ \E u \in Users, c \in ChartIds : HttpJoin(p, u, c)
  \/ \E u \in Users, c \in ChartIds, r \in Recipients, a \in FundAmounts :
       HttpDonate(p, u, c, r, a)
  \/ \E u \in Users : HttpDeposit(p, u, MinDonation)
  \/ \E u \in Users : HttpComplete(p, 1, u)

StepFunds ==
  \/ \E p \in Procs : create_chart(p) \/ join(p) \/ donate(p) \/ deposit(p)
  \/ \E p \in Procs : completeArena(p)
  \/ \E b \in BagToSet(pending) : broadcastToArena(b)

NextFunds == (ops < MaxOps /\ \E p \in Procs : StartFunds(p)) \/ StepFunds

SpecFunds == InitSettle /\ [][NextFunds]_vars

----------------------------------------------------------------------------
\* The heartbeat: interval ticks and pongs on the two players' sockets,
\* with join_arena messages and closes.

StartProbe(p) ==
  \/ \E s \in Sockets : WsClose(p, s)
  \/ \E s \in Sockets : WsTerminated(p, s)
  \/ \E s \in Sockets : WsJoinArena(p, s, 1)

StepProbe ==
  \/ Tick
  \/ \E s \in Sockets : Pong(s)
  \/ \E p \in Procs : close(p) \/ join_arena(p)
  \/ \E b \in BagToSet(pending) : broadcastToArena(b)

NextProbe == (ops < MaxOps /\ \E p \in Procs : StartProbe(p)) \/ StepProbe

SpecProbe == InitWs /\ [][NextProbe]_vars

----------------------------------------------------------------------------
\* Settlement takes effect once.

PrizeEntries(c) ==
  {i \in DOMAIN ledger :
     ledger[i].type = "prize" /\ ledger[i].reference = ChartRef(c)}

RECURSIVE SumOver(_, _)
SumOver(f, S) ==
  IF S = {} THEN 0
  ELSE LET x == CHOOSE y \in S : TRUE IN f[x] + SumOver(f, S \ {x})

ChartsWon == SumOver([u \in Users |-> users[u].chartsWon], Users)

\* C1: over any interleaving of complete invocations on an arena, at most
\* one prize ledger entry is written for its chart and the prize is credited
\* (chartsWon counted) at most once.
C1_SettlesAtMostOnce ==
  \A c \in DOMAIN charts :
    /\ Cardinality(PrizeEntries(c)) <= 1
    /\ ChartsWon <= Len(charts)

\* C2: run one after the other, a call of completeArena on an arena that is
\* already finished ends at its guard and leaves the arena, the chart, the
\* users, the ledger, the donations and the notifications as they were, so
\* the chart has one prize entry and one prize credit at most.
C2_SecondCallNoOp ==
  /\ [](\A c \in DOMAIN charts : Cardinality(PrizeEntries(c)) <= 1)
  /\ [](ChartsWon <= Len(charts))
  /\ [][\A p \in Procs :
          (proc[p].pc = "ca613" /\ proc[p].fin /\ proc'[p] # proc[p])
            => (store' = store /\ proc'[p].pc = "done")]_vars

\* A second call has returned on the settled arena.
C2_Witness ==
  \E p \in Procs :
    /\ proc[p].pc = "done" /\ proc[p].fin
    /\ proc[p].k \in {"complete", "update_score"}
    /\ Cardinality(PrizeEntries(1)) = 1

\* C3: a complete request on an arena that is already finished is answered
\* with success or with a conflict, never with status 500.
C3_NoInternalError ==
  \A p \in Procs :
    (proc[p].k = "complete" /\ proc[p].pc = "done" /\ proc[p].fin)
      => proc[p].resp \in {200, 400, 409}

----------------------------------------------------------------------------
\* Charts and money.

\* C4: in every reachable state every chart has at most maxParticipants
\* participants, also when joins of the same chart interleave.
C4_ParticipantsWithinMax ==
  \A c \in DOMAIN charts :
    Len(charts[c].participants) <= charts[c].maxParticipants

\* C5: whenever no handler is between two of its writes, every user's
\* balance is the sum of the signed amounts of the user's ledger entries.
C5_LedgerMatchesBalance ==
  AllIdle => \A u \in Users : LedgerSum(u) = users[u].balance

\* The entries of a ledger that reference donation d.
EntriesIn(l, d) == SelectSeq(l, LAMBDA t : t.reference = DonationRef(d))

EntriesOf(d) == EntriesIn(ledger, d)

\* C6: in every reachable state a completed donation has two ledger entries
\* referencing it, a debit of its amount for the donor and a credit of its
\* amount for the recipient.
C6_CompletedDonationHasTwoEntries ==
  \A d \in DOMAIN donations :
    donations[d].status = "completed" =>
      LET es == EntriesOf(d) IN
      /\ Len(es) = 2
      /\ \E i \in DOMAIN es :
           es[i].user = donations[d].user /\ es[i].amount = -donations[d].amount
      /\ \E i \in DOMAIN es :
           /\ es[i].user = donations[d].recipient
           /\ es[i].amount = donations[d].amount

\* The last step of a donation from a user to another one.
DonationEnds(p) ==
  /\ proc[p].k = "donate"
  /\ proc[p].pc = "dn1553"
  /\ proc'[p].pc = "done"
  /\ proc[p].caller # proc[p].uid

\* C7: a donation of a from A to another user B on chart C that runs alone
\* ends with A's balance a lower and B's balance and C's totalDonations a
\* higher than it started with, and with the balance snapshots of its two
\* ledger entries equal to the two new balances.
C7_DonationMovesAmount ==
  [][\A p \in Procs : DonationEnds(p) =>
       LET A == proc[p].caller
           B == proc[p].uid
           a == proc[p].val
           es == EntriesIn(ledger', proc[p].idx)
       IN
       /\ a >= MinDonation /\ proc[p].pre.donor >= a
       /\ users'[A].balance = proc[p].pre.donor - a
       /\ users'[B].balance = proc[p].pre.recipient + a
       /\ charts'[proc[p].chartId].totalDonations = proc[p].pre.total + a
       /\ Len(es) = 2
       /\ \A i \in DOMAIN es :
            /\ es[i].user \in {A, B}
            /\ es[i].balance = users'[es[i].user].balance
            /\ es[i].amount = IF es[i].user = A THEN -a ELSE a]_vars

\* A donation to another user has been answered with 201.
C7_Witness ==
  /\ \E p \in Procs : proc[p].k = "donate" /\ proc[p].pc = "done"
                       /\ proc[p].resp = 201
  /\ donations # <<>>
  /\ donations[Len(donations)].user # donations[Len(donations)].recipient
  /\ Len(EntriesOf(Len(donations))) = 2

----------------------------------------------------------------------------
\* Broadcasts and the connection registry.

IsArenaEvent(m) == m.type \in {"arena_chat", "score_update"}

\* The place in the log at which the event of invocation op was accepted.
AcceptedAt(op) ==
  CHOOSE k \in DOMAIN accepted : IsArenaEvent(accepted[k]) /\ accepted[k].op = op

\* C8: on every socket two arena_chat or score_update envelopes of the same
\* arena arrive in the order in which the server accepted their events.
C8_DeliveredInAcceptanceOrder ==
  \A s \in Sockets : \A i, j \in DOMAIN inbox[s] :
    (/\ i < j
     /\ IsArenaEvent(inbox[s][i]) /\ IsArenaEvent(inbox[s][j])
     /\ inbox[s][i].arenaId = inbox[s][j].arenaId)
      => AcceptedAt(inbox[s][i].op) <= AcceptedAt(inbox[s][j].op)

AuthsOf(u) ==
  {k \in DOMAIN accepted : accepted[k].type = "auth" /\ accepted[k].user = u}

\* The socket on which user u authenticated last.
Newest(u) ==
  accepted[CHOOSE k \in AuthsOf(u) : \A l \in AuthsOf(u) : l <= k].sock

\* An auth message of user u is accepted on socket s in this step.
Authenticates(s, u) ==
  /\ Len(accepted') = Len(accepted) + 1
  /\ accepted'[Len(accepted')] = Accepted("auth", NoId, 0, s, u)

\* C9: the registry maps a user to one socket at most, and to no other than
\* the one on which the user authenticated last: an auth of user U on a
\* socket makes the lookups of U resolve to that socket, and never again to
\* an earlier one.
C9_RegistryHoldsNewest ==
  /\ [](\A u \in Users : connectedClients[u] # NoSocket =>
          AuthsOf(u) # {} /\ connectedClients[u] = Newest(u))
  /\ [][\A s \in Sockets, u \in Users :
          Authenticates(s, u) => connectedClients'[u] = s]_vars

\* User 1 has authenticated on socket 2 after socket 1, and is looked up there.
C9_Witness ==
  /\ Cardinality({accepted[k].sock : k \in AuthsOf(1)}) = 2
  /\ connectedClients[1] = 2

\* Socket s closes in this step.
Closes(s) ==
  sockets[s].readyState = "OPEN" /\ sockets'[s].readyState = "CLOSED"

\* C10: the close of a socket that is not the one stored for its user leaves
\* the user's registry entry as it is.
C10_StaleCloseKeepsNewer ==
  [][\A s \in Sockets, u \in Users :
       (Closes(s) /\ sockets[s].userId = u /\ connectedClients[u] # s)
         => connectedClients'[u] = connectedClients[u]]_vars

----------------------------------------------------------------------------
\* What a settlement writes.

\* The prize of the chart of arena a, from the store.
PrizeOf(a) ==
  charts[arenas[a].chart].entryFee * Len(charts[arenas[a].chart].participants)

\* C11: a settlement that runs alone raises the winner's balance and
\* totalEarned by entryFee times the number of participants of the chart and
\* chartsWon by 1, and then appends one prize ledger entry of the winner with
\* that amount, the winner's new balance and the chart as reference.
C11_SettlementAmounts ==
  [][\A p \in Procs :
       LET W == proc[p].uid
           a == proc[p].arenaId
       IN
       /\ (proc[p].pc = "ca636" /\ proc'[p].pc # "ca636") =>
            users' = [users EXCEPT
                        ![W].balance = @ + PrizeOf(a),
                        ![W].totalEarned = @ + PrizeOf(a),
                        ![W].chartsWon = @ + 1]
       /\ (proc[p].pc = "ca648" /\ proc'[p].pc # "ca648") =>
            ledger' = Append(ledger,
                        Transaction(W, "prize", PrizeOf(a), users[W].balance,
                                    ChartRef(arenas[a].chart)))]_vars

\* A settlement has been answered with 200 and its prize entry is in the
\* ledger.
C11_Witness ==
  /\ \E p \in Procs : proc[p].k = "complete" /\ proc[p].pc = "done"
                       /\ proc[p].resp = 200
  /\ Cardinality(PrizeEntries(1)) = 1
  /\ \E u \in Users : users[u].chartsWon = 1

\* The chart_completed notifications of user u for chart c.
Completions(u, c) ==
  {i \in DOMAIN notifications :
     notifications[i] = Notification(u, "chart_completed", c)}

\* An arena whose settlement has awarded the prize, with no handler running.
Settled(a) ==
  /\ AllIdle
  /\ arenas[a].status = "finished"
  /\ PrizeEntries(arenas[a].chart) # {}

\* C12: for a settled arena every player but the winner has one
\* chart_completed notification for its chart, and the winner has none.
C12_OneNotificationPerLoser ==
  \A a \in DOMAIN arenas : Settled(a) =>
    \A i \in DOMAIN arenas[a].players :
      LET u == arenas[a].players[i].user IN
      Cardinality(Completions(u, arenas[a].chart)) =
        IF u = arenas[a].winner THEN 0 ELSE 1

----------------------------------------------------------------------------
\* Charts and their arenas.

ArenasOf(c) == {a \in DOMAIN arenas : arenas[a].chart = c}

IsFull(c) == Len(charts[c].participants) = charts[c].maxParticipants

JoinOfFullChart(p) ==
  /\ proc[p].k = "join"
  /\ proc[p].pc = "jn1231"
  /\ proc'[p].pc # "jn1231"
  /\ proc[p].chartId \in DOMAIN charts
  /\ IsFull(proc[p].chartId)
  /\ ~HasJoined(charts[proc[p].chartId], proc[p].caller)

\* C14: a join of a chart that two participants have filled is rejected
\* with the error "Chart is full", and changes nothing in the store.
C14_FullChartRejected ==
  [][\A p \in Procs : JoinOfFullChart(p) =>
       /\ proc'[p].pc = "done"
       /\ proc'[p].resp \in {400, 409}
       /\ proc'[p].err = "Chart is full"
       /\ store' = store]_vars

----------------------------------------------------------------------------
\* The life of an arena and of a chart.

\* C15: an arena that is finished stays finished, whatever handler writes it
\* afterwards, so it becomes finished once at most.
C15_FinishedIsTerminal ==
  [][\A a \in DOMAIN arenas :
       arenas[a].status = "finished" => arenas'[a].status = "finished"]_vars

\* A chat message that arrived at the finished arena has been saved to it.
C15_Witness ==
  /\ arenas[1].status = "finished"
  /\ arenas[1].chat # <<>>
  /\ \E p \in Procs : proc[p].k = "arena_chat" /\ proc[p].pc = "done"
                       /\ proc[p].fin

\* C16: an arena has a winner only when it is finished, and the winner it
\* has is never replaced by another value.
C16_WinnerSetOnce ==
  [][\A a \in DOMAIN arenas :
       /\ arenas'[a].winner # NoUser => arenas'[a].status = "finished"
       /\ arenas[a].winner # NoUser => arenas'[a].winner = arenas[a].winner]_vars

\* The place of a status in the life of a chart.
Rank(status) ==
  CASE status = "open" -> 0
    [] status = "in-progress" -> 1
    [] status = "completed" -> 2

\* C17: no step moves a chart back from in-progress to open, or from
\* completed to in-progress or open.
C17_ChartStatusMonotonic ==
  [][\A c \in DOMAIN charts :
       Rank(charts'[c].status) >= Rank(charts[c].status)]_vars

\* C18: in every reachable state a chart is referenced by one arena at most.
C18_OneArenaPerChart ==
  \A c \in DOMAIN charts : Cardinality(ArenasOf(c)) <= 1

----------------------------------------------------------------------------
\* Spectators.

\* The entries user u has among the spectators of arena a.
SpectatorEntries(a, u) ==
  {i \in DOMAIN arenas[a].spectators : arenas[a].spectators[i].user = u}

\* C19: however often a user sends join_arena for an arena, the user is in
\* its spectators once at most: a second join leaves them as the first did.
C19_SpectatorOnce ==
  \A a \in DOMAIN arenas, u \in Users : Cardinality(SpectatorEntries(a, u)) <= 1

\* No handler is running and no broadcast is on its way.
Quiet == AllIdle /\ pending = EmptyBag

\* The arena_state snapshots of arena a that socket s has received.
Snapshots(s, a) ==
  {i \in DOMAIN inbox[s] :
     inbox[s][i].type = "arena_state" /\ inbox[s][i].arenaId = a}

\* Chat entry e is in a snapshot of arena a that socket s has received.
InSnapshot(s, a, e) ==
  \E i \in Snapshots(s, a) :
    \E j \in DOMAIN inbox[s][i].body.chat : inbox[s][i].body.chat[j] = e

\* Chat entry e has been sent to socket s as an arena_chat envelope.
InBroadcast(s, a, e) ==
  \E i \in DOMAIN inbox[s] :
    /\ inbox[s][i].type = "arena_chat"
    /\ inbox[s][i].arenaId = a
    /\ inbox[s][i].op = e.message

\* C20: when nothing is under way, a socket that is registered for its user
\* and has received the arena_state of an arena has every chat entry of the
\* arena, in a snapshot or as an arena_chat envelope.
C20_NoMissedChat ==
  Quiet => \A s \in Sockets, a \in DOMAIN arenas :
    (/\ sockets[s].userId # NoUser
     /\ connectedClients[sockets[s].userId] = s
     /\ Snapshots(s, a) # {})
      => \A j \in DOMAIN arenas[a].chat :
           InSnapshot(s, a, arenas[a].chat[j])
             \/ InBroadcast(s, a, arenas[a].chat[j])

\* User 3, who is no player, has joined arena 1 on socket 2 and holds one
\* chat entry from the snapshot only and another from a broadcast only.
C20_Witness ==
  /\ Quiet
  /\ Snapshots(2, 1) # {}
  /\ \E j \in DOMAIN arenas[1].chat :
       InSnapshot(2, 1, arenas[1].chat[j]) /\ ~InBroadcast(2, 1, arenas[1].chat[j])
  /\ \E j \in DOMAIN arenas[1].chat :
       ~InSnapshot(2, 1, arenas[1].chat[j]) /\ InBroadcast(2, 1, arenas[1].chat[j])

----------------------------------------------------------------------------
\* The fan-out of a chat message.

\* The number of copies of envelope m in a socket's inbox.
Copies(ib, m) == Len(SelectSeq(ib, LAMBDA x : x = m))

\* Broadcast b is delivered in this step.
Delivered(b) == CopiesIn(b, pending') < CopiesIn(b, pending)

\* User u is a player or a spectator of the arena.
IsParticipant(arena, u) ==
  \/ IsPlayer(arena, u)
  \/ \E i \in DOMAIN arena.spectators : arena.spectators[i].user = u

\* The registry holds an open socket for user u.
Connected(u) ==
  /\ connectedClients[u] # NoSocket
  /\ sockets[connectedClients[u]].readyState = "OPEN"

\* C21: an arena_chat handler that has saved its entry starts the broadcast
\* of its envelope, and when that broadcast is delivered every player and
\* every spectator of the arena for whom the registry holds an open socket
\* receives the envelope on it, the sender of the message included.
C21_ChatReachesEveryone ==
  [][/\ \A p \in Procs :
          (proc[p].pc = "ch433" /\ proc'[p].pc # "ch433") =>
            \E b \in BagToSet(pending') :
              /\ b.arenaId = proc[p].arenaId
              /\ b.msg.type = "arena_chat"
              /\ b.msg.op = proc[p].op
              /\ CopiesIn(b, pending') = CopiesIn(b, pending) + 1
     /\ \A b \in BagToSet(pending) :
          (b.msg.type = "arena_chat" /\ Delivered(b)
             /\ b.arenaId \in DOMAIN arenas) =>
            \A u \in Users :
              (IsParticipant(arenas[b.arenaId], u) /\ Connected(u)) =>
                Copies(inbox'[connectedClients[u]], b.msg)
                  > Copies(inbox[connectedClients[u]], b.msg)]_vars

\* Player 1 has received the echo of a chat message of their own, and the
\* other player has received the same envelope.
C21_Witness ==
  \E i \in DOMAIN inbox[1] :
    /\ inbox[1][i].type = "arena_chat"
    /\ inbox[1][i].userId = 1
    /\ sockets[1].userId = 1 /\ connectedClients[1] = 1
    /\ \E j \in DOMAIN inbox[2] : inbox[2][j] = inbox[1][i]

----------------------------------------------------------------------------
\* Who may report a score.

\* User u is listed among the players of arena a.
ListedPlayer(a, u) ==
  /\ a \in DOMAIN arenas
  /\ \E i \in DOMAIN arenas[a].players : arenas[a].players[i].user = u

\* The pcs of an update_score handler that has passed its authorization.
ScorePcs == {"us459", "us474", "ca613", "ca619", "ca622", "ca626", "ca632",
             "ca636", "ca648", "ca660"}

\* The places where a handler writes the store or starts a broadcast.
Effects == <<store, pending, accepted>>

\* C22: an update_score message on a socket that has not authenticated, or
\* whose user is not listed among the players of the arena it names, ends
\* without a score_update broadcast, without a write to the store and
\* without settlement: only a listed player's message gets past line 455.
C22_OnlyPlayersReport ==
  /\ [](\A p \in Procs :
          (proc[p].k = "update_score" /\ proc[p].pc \in ScorePcs)
            => ListedPlayer(proc[p].arenaId, proc[p].caller))
  /\ [][\A p \in Procs :
          /\ (/\ proc'[p].k = "update_score" /\ proc'[p].op = ops + 1
              /\ ops' = ops + 1
              /\ sockets[proc'[p].sock].userId = NoUser)
               => (proc'[p].pc = "done" /\ Effects' = Effects /\ inbox' = inbox)
          /\ (/\ proc[p].k = "update_score" /\ proc[p].pc = "us450"
              /\ proc'[p].pc # "us450"
              /\ ~ListedPlayer(proc[p].arenaId, proc[p].caller))
               => (proc'[p].pc = "done" /\ Effects' = Effects /\ inbox' = inbox)]_vars

\* A winning score reported on the socket that has not authenticated has
\* been dropped: the arena is live and no score was accepted.
C22_Witness ==
  /\ \E p \in Procs :
       /\ proc[p].k = "update_score" /\ proc[p].pc = "done"
       /\ proc[p].sock = 2 /\ proc[p].caller = NoUser
       /\ proc[p].arenaId = 1 /\ proc[p].val >= DefaultWinScore
  /\ sockets[2].userId = NoUser
  /\ arenas[1].status = "live"
  /\ \A k \in DOMAIN accepted : accepted[k].type # "score_update"

\* The pcs of an update_score handler that is inside completeArena.
SettlePcs == ScorePcs \ {"us459", "us474"}

\* C23: an update_score handler that has passed its authorization calls
\* completeArena for the arena and the target player when the reported
\* score is at least the win score of 100, and ends without doing so when
\* it is below; the handler ends only when completeArena has returned or
\* thrown, and the arena is finished by then.
C23_SettlesAtThreshold ==
  /\ [](\A p \in Procs :
          (proc[p].k = "update_score" /\ proc[p].pc \in SettlePcs)
            => proc[p].val >= DefaultWinScore)
  /\ [][\A p \in Procs :
          /\ (/\ proc[p].k = "update_score" /\ proc[p].pc = "us474"
              /\ proc'[p].pc # "us474")
               => IF proc[p].val >= DefaultWinScore
                  THEN proc'[p] = [proc[p] EXCEPT !.pc = "ca613"]
                  ELSE proc'[p].pc = "done" /\ Effects' = Effects
          /\ (/\ proc[p].k = "update_score" /\ proc[p].pc \in SettlePcs
              /\ proc'[p].pc = "done")
               => arenas'[proc[p].arenaId].status = "finished"]_vars

\* Player 1 has reported a winning score for player 2: the handler has
\* ended, and the arena is finished with player 2 as winner and the prize
\* in the ledger.
C23_Witness ==
  /\ \E p \in Procs : proc[p].k = "update_score" /\ proc[p].pc = "done"
  /\ AllIdle
  /\ arenas[1].status = "finished" /\ arenas[1].winner = 2
  /\ \E i \in PrizeEntries(1) : ledger[i].user = 2

----------------------------------------------------------------------------
\* Leaving an arena.

\* User u has an entry among the spectators of arena a after this step.
StillWatching(a, u) ==
  \E i \in DOMAIN arenas'[a].spectators : arenas'[a].spectators[i].user = u

\* C24: with the messages handled one after the other, when the handler of
\* a leave_arena message of an authenticated user for an arena ends, the
\* user is not among the spectators of that arena; the handler writes no
\* other arena and sends its socket no error, so that a second leave_arena
\* changes nothing.
C24_LeaveRemovesSpectator ==
  [][\A p \in Procs :
       /\ (/\ proc'[p].k = "leave_arena" /\ proc'[p].op = ops + 1
           /\ ops' = ops + 1 /\ proc'[p].pc = "done"
           /\ proc'[p].caller # NoUser
           /\ proc'[p].arenaId \in DOMAIN arenas)
            => ~StillWatching(proc'[p].arenaId, proc'[p].caller)
       /\ (/\ proc[p].k = "leave_arena" /\ proc[p].pc = "la487"
           /\ proc'[p].pc = "done"
           /\ proc[p].arenaId \in DOMAIN arenas)
            => ~StillWatching(proc[p].arenaId, proc[p].caller)
       /\ (proc[p].k = "leave_arena" /\ proc[p].pc = "la487"
             /\ proc'[p] # proc[p])
            => /\ \A b \in DOMAIN arenas :
                    b # proc[p].arenaId => arenas'[b] = arenas[b]
               /\ inbox' = inbox]_vars

----------------------------------------------------------------------------
\* Messages that name an arena that does not exist.

ArenaMessages == {"join_arena", "arena_chat", "update_score", "leave_arena"}

\* The handler of slot p runs for a message of an authenticated user that
\* names an arena that does not exist.
NamesMissing(p) ==
  /\ proc[p].k \in ArenaMessages
  /\ ~Idle(p)
  /\ proc[p].caller # NoUser
  /\ proc[p].arenaId \notin DOMAIN arenas

\* The number of error envelopes in an inbox.
ErrorsIn(ib) == Len(SelectSeq(ib, LAMBDA m : m.type = "error"))

\* C25: no step of the handler of a join_arena, arena_chat, update_score or
\* leave_arena message that names an arena that does not exist writes the
\* store, sends an error envelope, or starts a broadcast to an arena that
\* exists.
C25_MissingArenaIgnored ==
  [][\A p \in Procs :
       (NamesMissing(p) /\ proc'[p] # proc[p]) =>
         /\ store' = store
         /\ \A s \in Sockets : ErrorsIn(inbox'[s]) = ErrorsIn(inbox[s])
         /\ \A b \in BagToSet(pending') :
              CopiesIn(b, pending') > CopiesIn(b, pending)
                => b.arenaId \notin DOMAIN arenas]_vars

----------------------------------------------------------------------------
\* The complete request for an arena that does not exist.

\* C26: a complete request that names an arena that does not exist is
\* answered with status 404 and changes nothing in the store.
C26_MissingArenaNotFound ==
  [][\A p \in Procs :
       (/\ proc[p].k = "complete" /\ proc[p].pc = "ca613"
        /\ proc[p].arenaId \notin DOMAIN arenas
        /\ proc'[p] # proc[p])
         => /\ proc'[p].pc = "done"
            /\ proc'[p].resp = 404
            /\ store' = store]_vars

----------------------------------------------------------------------------
\* Requests that fail a precondition.

\* The pcs at which a join or a donation tests a precondition.
TestPcs == {"jn1231", "jn1254", "dn1463", "dn1468", "dn1473"}

\* The request of slot p fails the precondition tested at its pc.
FailsTest(p) ==
  LET c == proc[p].chartId
      u == proc[p].caller
  IN
  CASE proc[p].pc = "jn1231" ->
         \/ c \notin DOMAIN charts
         \/ charts[c].status # "open"
         \/ Len(charts[c].participants) >= charts[c].maxParticipants
         \/ \E i \in DOMAIN charts[c].participants :
              charts[c].participants[i].user = u
    [] proc[p].pc = "jn1254" -> users[u].balance < charts[c].entryFee
    [] proc[p].pc = "dn1463" -> users[u].balance < proc[p].val
    [] proc[p].pc = "dn1468" -> c \notin DOMAIN charts
    [] proc[p].pc = "dn1473" -> proc[p].uid \notin Users
    [] OTHER -> FALSE

\* The handler of slot p answers an error in this step.
AnswersError(p) ==
  /\ proc'[p] # proc[p]
  /\ proc'[p].k \in {"join", "donate"}
  /\ proc'[p].pc = "done"
  /\ proc'[p].resp >= 400

----------------------------------------------------------------------------
\* The order of the writes of a settlement.

\* C28: in every reachable state, those between two writes of a settlement
\* included, an arena that is finished and has a winner has a prize entry
\* of that winner for its chart in the ledger.
C28_WinnerHasPrizeEntry ==
  \A a \in DOMAIN arenas :
    (arenas[a].status = "finished" /\ arenas[a].winner # NoUser) =>
      \E i \in PrizeEntries(arenas[a].chart) : ledger[i].user = arenas[a].winner

----------------------------------------------------------------------------
\* Messages that fail.

\* This step sends the error envelope to socket s and to nobody else, and
\* leaves the sockets and the registry as they are.
ErrorToOrigin(s) ==
  /\ inbox' = [inbox EXCEPT ![s] = Append(@, ProcessingError)]
  /\ pending' = pending
  /\ sockets' = sockets
  /\ connectedClients' = connectedClients

\* C29: a message that is not JSON, and an update_score message whose
\* settlement throws, each put one error envelope into the inbox of the
\* socket the message came on and of no other, and leave that socket open
\* and the registry as it is; a socket that has received an error envelope
\* has its next message handled like any other.
C29_ErrorToOriginOnly ==
  /\ [][\A p \in Procs :
          /\ (/\ proc'[p].k = "malformed" /\ proc'[p].op = ops + 1
              /\ ops' = ops + 1)
               => ErrorToOrigin(proc'[p].sock)
          /\ (/\ proc[p].k = "update_score" /\ proc[p].pc = "ca632"
              /\ proc[p].uid \notin Users /\ proc'[p] # proc[p])
               => (ErrorToOrigin(proc[p].sock) /\ proc'[p].pc = "done")]_vars
  /\ [](\A s \in Sockets :
          (ErrorsIn(inbox[s]) > 0 /\ AllIdle) =>
            /\ sockets[s].readyState = "OPEN"
            /\ ENABLED (\E p \in Procs : WsArenaChat(p, s, 1)))

\* Socket 1 has received the error envelope, and after it the broadcast of
\* a chat message that its user sent as the second message of the run.
C29_Witness ==
  \E i, j \in DOMAIN inbox[1] :
    /\ i < j
    /\ inbox[1][i] = ProcessingError
    /\ inbox[1][j].type = "arena_chat"
    /\ inbox[1][j].userId = 1 /\ inbox[1][j].op = 2
    /\ sockets[1].userId = 1 /\ sockets[2].userId = NoUser

----------------------------------------------------------------------------
\* Balances.

\* C30: in every reachable state of the interleaved chart creations, joins,
\* donations, deposits and settlements every user's balance is at least 0.
C30_BalanceNonNegative == \A u \in Users : users[u].balance >= 0

\* A donation or a fee has brought a user's balance down to 10, and a
\* request has been rejected for its balance.
C30_Witness ==
  /\ \E u \in Users : users[u].balance = WelcomeBonus - LargeAmount
  /\ \E p \in Procs :
       /\ proc[p].pc = "done"
       /\ proc[p].err \in {"Insufficient balance",
                            "Insufficient balance to create chart"}

----------------------------------------------------------------------------
\* The heartbeat.

\* The heartbeat interval fires in this step: it marks or terminates an
\* open socket.
Ticks ==
  \E s \in Sockets :
    /\ sockets[s].readyState = "OPEN"
    /\ \/ sockets'[s].readyState = "CLOSING"
       \/ sockets[s].isAlive /\ ~sockets'[s].isAlive

\* C31: when the heartbeat fires, the open sockets it terminates are those
\* whose last ping has not been answered; a socket that was never pinged or
\* has answered its last ping stays open, and nothing but the heartbeat
\* terminates a socket.
C31_ProbeClosesUnresponsive ==
  [][Ticks => \A s \in Sockets :
       sockets[s].readyState = "OPEN" =>
         /\ sockets'[s].readyState \in {"OPEN", "CLOSING"}
         /\ (sockets'[s].readyState = "CLOSING") <=> (sockets[s].probe = "sent")]_vars

\* Socket 1 has been terminated with its ping unanswered, and socket 2,
\* which answered the same ping, is open and has been pinged again.
C31_Witness ==
  /\ sockets[1].readyState = "CLOSING" /\ sockets[1].probe = "sent"
  /\ sockets[2].readyState = "OPEN" /\ sockets[2].probe = "sent"

----------------------------------------------------------------------------
\* The score an update_score message stores.

\* C32: the Arena.updateOne of an update_score message whose target is a
\* player of the arena leaves the reported score stored for that player.
C32_ScoreStored ==
  [][\A p \in Procs :
       (/\ proc[p].k = "update_score" /\ proc[p].pc = "us459"
        /\ proc'[p].pc # "us459")
         => \A i \in DOMAIN arenas[proc[p].arenaId].players :
              arenas[proc[p].arenaId].players[i].user = proc[p].uid
                => arenas'[proc[p].arenaId].players[i].score = proc[p].val]_vars

----------------------------------------------------------------------------
\* Who wins.

\* C33: in every reachable state the winner of a finished arena, the winner
\* of its chart and the user of every prize entry of the chart are players
\* of the arena.
C33_WinnerIsPlayer ==
  \A a \in DOMAIN arenas :
    LET c == arenas[a].chart IN
    /\ (arenas[a].status = "finished" /\ arenas[a].winner # NoUser)
         => ListedPlayer(a, arenas[a].winner)
    /\ charts[c].winner # NoUser => ListedPlayer(a, charts[c].winner)
    /\ \A i \in PrizeEntries(c) : ListedPlayer(a, ledger[i].user)

----------------------------------------------------------------------------
\* Conservation of money.

Balances(us) == SumOver([u \in Users |-> us[u].balance], Users)

\* The sum of the balances a donation arrived at, when no other handler has
\* run since.
BalancesAtArrival(p) ==
  SumOver([u \in Users |->
             IF u = proc[p].caller THEN proc[p].pre.donor
             ELSE IF u = proc[p].uid THEN proc[p].pre.recipient
             ELSE users[u].balance], Users)

\* C34: a donation that runs alone and is answered with 201 ends with the
\* sum of all users' balances equal to the sum it arrived at, whoever the
\* donor and the recipient are, the donor as recipient included.
C34_DonationConserves ==
  [][\A p \in Procs :
       (/\ proc[p].k = "donate" /\ proc[p].pc = "dn1553"
        /\ proc'[p].pc = "done" /\ proc'[p].resp = 201)
         => Balances(users') = BalancesAtArrival(p)]_vars

----------------------------------------------------------------------------
\* One copy of a broadcast for each user.

\* The registry holds socket s for user u and for nobody else.
OnlyUserOf(s, u) ==
  \A v \in Users : connectedClients[v] = s <=> v = u

\* C35: the delivery of an arena broadcast puts at most one copy of its
\* envelope on the socket of each connected user, also for a user who is a
\* player and a spectator of the arena or is listed among its spectators
\* more than once.
C35_DeliveredOnce ==
  [][\A b \in BagToSet(pending) :
       Delivered(b) =>
         \A u \in Users :
           (Connected(u) /\ OnlyUserOf(connectedClients[u], u)) =>
             Copies(inbox'[connectedClients[u]], b.msg)
               <= Copies(inbox[connectedClients[u]], b.msg) + 1]_vars

----------------------------------------------------------------------------
\* The arena and its chart after settlement.

\* No handler is inside completeArena or on its way to it.
NoSettlement ==
  \A p \in Procs : proc[p].k \in {"complete", "update_score"} => Idle(p)

\* C36: whenever no settlement is in progress, the chart of a finished
\* arena is completed and has the arena's winner, also after interleaved
\* complete calls that name different winners.
C36_ArenaAndChartAgree ==
  NoSettlement =>
    \A a \in DOMAIN arenas :
      arenas[a].status = "finished" =>
        /\ charts[arenas[a].chart].status = "completed"
        /\ charts[arenas[a].chart].winner = arenas[a].winner

----------------------------------------------------------------------------
\* The prize pool.

\* The chart is open or in progress and its pool is the fees of its
\* participants.
PoolIsFees(chart) ==
  chart.status \in {"open", "in-progress"}
    => chart.prizePool = chart.entryFee * Len(chart.participants)

\* C37: every step that creates or changes a chart leaves it, while it is
\* open or in progress, with prizePool equal to entryFee times the number of
\* its participants, the product settlement pays as the prize.
C37_PoolIsFees ==
  [][\A c \in DOMAIN charts' :
       (c \notin DOMAIN charts \/ charts'[c] # charts[c])
         => PoolIsFees(charts'[c])]_vars

----------------------------------------------------------------------------
\* The money of a chart.

\* The ledger entries of a type that reference chart c or, for the fee of
\* its creator, its creation.
ChartEntries(c, type) ==
  SelectSeq(ledger, LAMBDA t : /\ t.type = type
                               /\ t.reference \in {ChartRef(c), CreationRef})

\* What the users held before the chart was created: their welcome bonus.
BalancesBefore == Cardinality(Users) * WelcomeBonus

\* C38: when no handler is running and chart 1 has been settled once, the
\* prize credited is the total of the entry fees debited for the chart, and
\* the sum of all users' balances is the sum before the chart was created,
\* however the join handlers have interleaved.
C38_ChartMoneyConserved ==
  (AllIdle /\ Cardinality(PrizeEntries(1)) = 1) =>
    /\ SumAmounts(ChartEntries(1, "prize"))
         = -SumAmounts(ChartEntries(1, "entry_fee"))
    /\ Balances(users) = BalancesBefore

----------------------------------------------------------------------------
\* What a closed connection leaves behind.

\* Socket s has closed and none of its handlers is running.
ClosedAndDone(s) ==
  /\ sockets[s].readyState = "CLOSED"
  /\ \A p \in Procs : ~Idle(p) => proc[p].sock # s

\* C39: once a connection has closed and its message handlers and its
\* close handler have finished, its user is among the spectators of no
\* arena joined through it, however a join_arena handler that was under
\* way has interleaved with the close handler.
C39_ClosedLeavesNoSpectator ==
  \A s \in Sockets :
    (ClosedAndDone(s) /\ sockets[s].userId # NoUser) =>
      \A i \in DOMAIN sockets[s].arenas :
        sockets[s].arenas[i] \in DOMAIN arenas =>
          SpectatorEntries(sockets[s].arenas[i], sockets[s].userId) = {}

----------------------------------------------------------------------------
\* What a leave_arena message leaves alone.

\* Arena a is in the ws.arenas of a socket.
JoinedTo(sock, a) == \E i \in DOMAIN sock.arenas : sock.arenas[i] = a

\* C40: no step of the handler of a leave_arena message that names arena X
\* changes the spectators of another arena, starts a spectator_left
\* broadcast for another arena, or takes another arena out of the arenas
\* its connection has joined.
C40_LeaveChangesOnlyNamed ==
  [][\A p \in Procs :
       (proc[p].k = "leave_arena" /\ proc[p].pc = "la487"
          /\ proc'[p] # proc[p]) =>
         LET X == proc[p].arenaId
             s == proc[p].sock
         IN
         /\ \A a \in DOMAIN arenas :
              a # X => arenas'[a].spectators = arenas[a].spectators
         /\ \A b \in BagToSet(pending') :
              (CopiesIn(b, pending') > CopiesIn(b, pending)
                 /\ b.msg.type = "spectator_left") => b.arenaId = X
         /\ \A a \in ArenaIds :
              (a # X /\ JoinedTo(sockets[s], a)) => JoinedTo(sockets'[s], a)]_vars

====
